---- MODULE Spec2Model ----
(***************************************************************************)
(* Verification model of the ai-data-analyst repository.                   *)
(*                                                                         *)
(* TLA+ strings are ASCII, so the Korean words of the source are written   *)
(* in romanised form.  Legend (token of the model -> text of the source):  *)
(*   "sangwi"   -> U+C0C1 U+C704  ("top", upper rank)                      *)
(*   "hawi"     -> U+D558 U+C704  ("bottom", lower rank)                   *)
(*   "Top"      -> Top                                                     *)
(*   "sp"       -> one blank                                               *)
(*   "n0", "n1", "n2" -> the numbers 0, 1 and 2 written in digits          *)
(*   "georaecheobyeol" -> "by company" (the company word + byeol suffix)   *)
(*   "choedae"  -> "maximum"                                               *)
(*   "hangmogeun"  -> "the item" + topic particle (hangmok + eun)          *)
(*   "uimiingayo?" -> "meaning" + "is it?" (uimi + ingayo + ?)             *)
(*   "mueot" -> "what", "eonje" -> "when", "bigyo" -> "compare"            *)
(*   "hanguk" -> a company name written in Hangul                          *)
(*   "hello" -> a Latin word, "ABCneun?" -> ABC + topic particle neun + ?  *)
(*   "J-6" -> the field code J-6, "J-6eun?" -> J-6 + particle eun + ?      *)
(*   "y2024" -> 2024 + the year word, "m1" -> 1 + the month word           *)
(*   column names: "jeonhwabeonho" (telephone number),                     *)
(*     "saeopjadeungnokbeonho" (business registration number),             *)
(*     "damdangja yeollakcheo" (contact of the person in charge),          *)
(*     "memo" (note), "B-5" (a field code the codebook does not map)       *)
(* The other romanised words are the keywords of the source lists, in the  *)
(* order of the source.                                                    *)
(*   dataset names: "georaecheo" (clients), "maechul" (sales),             *)
(*                  "ilji" (sales journal), "jeonche" (all)                *)
(* A query is the sequence of its tokens; a keyword occurs in the query    *)
(* when it is a substring of one of the tokens.                            *)
(***************************************************************************)
EXTENDS Integers, Sequences, FiniteSets, TLC

VARIABLES
    raw_dataframes,   \* DataLoader.raw_dataframes: dataset name -> table
    calc_query,       \* query of the last CalcEngine.calculate call
    calc_filter,      \* dataset_filter of the last calculate call
    calc_result,      \* what the last calculate call returned or raised
    route_query,      \* query of the last QueryRouter.route call
    routing_result,   \* the RoutingResult the last route call returned
    mask_text,        \* the text given to mask_sensitive_info, <<>> if none
    masked_text,      \* <<what the call returned>>, <<>> before it returns
    remasked_text,    \* <<what masking the returned text returned>>, or <<>>
    cell_column,      \* name of the column of a cell of a loaded table
    cell_value,       \* str(value) of that cell
    record_text,      \* <<text LookupEngine put in the record>>, or <<>>
    document_text,    \* <<text DataLoader put in the document>>, or <<>>
    join_dataframes,  \* the uploaded tables: a list of [filename, df]
    join_result,      \* what SmartAnalyst._join_dataframes returned
    uploaded_images,  \* names of the uploaded image files
    analyze_request,  \* [query, include_images] of the analyze call, or <<>>
    llm_calls,        \* the LLM calls of the analyze call: kind and outcome
    analysis_result,  \* what SmartAnalyst.analyze returned
    lookup_query,     \* the query of the lookup call in progress, or <<>>
    lookup_filter,    \* its dataset_filter
    lookup_result,    \* the LookupResult the last lookup call returned
    process_request,  \* <<[query, dataset_filter]>> of the process call, or <<>>
    unified_response, \* what UnifiedProcessor.process returned
    rag_request,      \* <<[query, sources]>> of search_and_generate, or <<>>
    rag_result,       \* the RAGResult the call returned
    chat_history,     \* st.session_state.chat_history
    conversation_context, \* st.session_state.conversation_context
    script_run,       \* what the last run of main did with a question
    csv_file,         \* a CSV file: what read_csv does with it per encoding
    csv_load,         \* the last load of it: loader, encodings tried, result
    uploaded_pdfs,    \* names of the uploaded PDF files
    upload_run,       \* the last run of the upload loop: files and messages
    topn_df,          \* the table given to SmartAnalyst._calculate_top_n
    topn_query,       \* the words of the query of the last call, <<>> if none
    topn_result,      \* the rankings the last call returned
    vector_store,     \* VectorStore: its index, its documents, its model
    vector_cache,     \* the three cache files of the vector store
    store_call        \* the last build_index call and the last search

calcVars == <<raw_dataframes, calc_query, calc_filter, calc_result>>

routerVars == <<route_query, routing_result>>

maskVars == <<mask_text, masked_text, remasked_text>>

cellVars == <<cell_column, cell_value, record_text, document_text>>

joinVars == <<join_dataframes, join_result>>

analystVars == <<uploaded_images, analyze_request, llm_calls, analysis_result>>

lookupVars == <<lookup_query, lookup_filter, lookup_result>>

processorVars == <<process_request, unified_response>>

ragVars == <<rag_request, rag_result>>

appVars == <<chat_history, conversation_context, script_run>>

csvVars == <<csv_file, csv_load>>

\* the variables of the file loading, the upload and the vector store
pageVars == <<uploaded_pdfs, upload_run>>

topnVars == <<topn_df, topn_query, topn_result>>

storeVars == <<vector_store, vector_cache, store_call>>

lastVars == <<csvVars, pageVars, topnVars, storeVars>>

laterVars == <<processorVars, ragVars, appVars, lastVars>>

\* the variables of the components that came after the join
restVars == <<analystVars, lookupVars, laterVars>>

vars == <<raw_dataframes, calc_query, calc_filter, calc_result,
          route_query, routing_result,
          mask_text, masked_text, remasked_text,
          cell_column, cell_value, record_text, document_text,
          join_dataframes, join_result,
          uploaded_images, analyze_request, llm_calls, analysis_result,
          lookup_query, lookup_filter, lookup_result,
          process_request, unified_response, rag_request, rag_result,
          chat_history, conversation_context, script_run,
          csv_file, csv_load, uploaded_pdfs, upload_run,
          topn_df, topn_query, topn_result,
          vector_store, vector_cache, store_call>>

(***************************************************************************)
(* Each component is checked on its own: the others stay as constructed.   *)
(***************************************************************************)
NoRoute == [mode |-> "None", confidence |-> 0,
            reasoning |-> [text |-> "not_called", scores |-> <<>>]]

RouterIdle == route_query = <<>> /\ routing_result = NoRoute

MaskIdle == mask_text = <<>> /\ masked_text = <<>> /\ remasked_text = <<>>

CellIdle ==
    /\ cell_column = ""
    /\ cell_value = <<>>
    /\ record_text = <<>>
    /\ document_text = <<>>

NotJoined == [log |-> "not_called"]

JoinIdle == join_dataframes = <<>> /\ join_result = NotJoined

\* no analyze call has returned yet
NoAnalysis ==
    [raised |-> FALSE, data_context |-> <<>>, gemini_response |-> <<>>,
     tables |-> <<>>]

AnalystIdle ==
    /\ uploaded_images = <<>>
    /\ analyze_request = <<>>
    /\ llm_calls = <<>>
    /\ analysis_result = NoAnalysis

\* no lookup call has returned yet
NoLookup ==
    [raised |-> FALSE, answer |-> "not_called", found_records |-> <<>>,
     search_conditions |-> <<>>]

LookupIdle ==
    /\ lookup_query = <<>>
    /\ lookup_filter = "jeonche"
    /\ lookup_result = NoLookup

\* no process call has returned yet
NoResponse ==
    [raised |-> FALSE, mode |-> "None", data_summary |-> <<>>,
     gemini_analysis |-> <<>>]

ProcessorIdle == process_request = <<>> /\ unified_response = NoResponse

\* no search_and_generate call has returned yet
NoRAGResult == [answer |-> <<>>, sources |-> <<>>, context_used |-> <<>>]

RagIdle == rag_request = <<>> /\ rag_result = NoRAGResult

\* main has not run with a question yet
NoRun == [handler |-> "None", raised |-> FALSE, caught |-> FALSE,
          displayed |-> <<>>, propagated |-> FALSE, runs |-> 0]

AppIdle ==
    /\ chat_history = <<>>
    /\ conversation_context = <<>>
    /\ script_run = NoRun

NoFile == [encoding \in {} |-> "parses"]

NoLoad == [loader |-> "None", tried |-> <<>>, df |-> <<>>, reported |-> "None"]

CsvIdle == csv_file = NoFile /\ csv_load = NoLoad

NoUpload == [files |-> <<>>, displayed |-> <<>>]

PageIdle == uploaded_pdfs = <<>> /\ upload_run = NoUpload

NoTable == [columns |-> {}, rows |-> {}]

NoRankings == [n |-> <<>>, companies |-> <<>>, products |-> <<>>]

TopNIdle == topn_df = NoTable /\ topn_query = <<>> /\ topn_result = NoRankings

\* VectorStore.__init__: no index, no documents, no model
NewStore == [index |-> <<>>, documents |-> <<>>, model |-> FALSE]

NoCache == [index |-> <<>>, docs |-> <<>>, config |-> <<>>]

NoStoreCall ==
    [op |-> "None", built |-> FALSE, documents |-> <<>>, force_rebuild |-> FALSE,
     loaded |-> FALSE, results |-> <<>>]

StoreIdle ==
    vector_store = NewStore /\ vector_cache = NoCache /\ store_call = NoStoreCall

LastIdle == CsvIdle /\ PageIdle /\ TopNIdle /\ StoreIdle

LaterIdle == ProcessorIdle /\ RagIdle /\ AppIdle /\ LastIdle

RestIdle == AnalystIdle /\ LookupIdle /\ LaterIdle

NoFrames == [d \in {} |-> {}]

\* Python's None where a table is expected
NoneDF == [present |-> FALSE, columns |-> <<>>, dtypes |-> <<>>, rows |-> <<>>]

\* no calculate call has returned yet
NoCall ==
    [raised |-> FALSE, answer |-> "not_called", result_df |-> NoneDF,
     filter_conditions |-> <<>>, sample_rows |-> <<>>, sql_equivalent |-> ""]

CalcIdle ==
    /\ raw_dataframes = NoFrames
    /\ calc_query = <<>>
    /\ calc_filter = "jeonche"
    /\ calc_result = NoCall

(***************************************************************************)
(* Bounds of the model.                                                    *)
(***************************************************************************)
MaxRows == 3        \* rows of a loaded table
MaxQueryLen == 3    \* tokens of a query

(***************************************************************************)
(* Generic helpers.                                                        *)
(***************************************************************************)
Range(s) == {s[i] : i \in DOMAIN s}

SeqsUpTo(S, n) == UNION {[1..k -> S] : k \in 0..n}

MinOf(a, b) == IF a <= b THEN a ELSE b

(***************************************************************************)
(* Numbers of a result table are kept as exact fractions num/den so that   *)
(* a mean is not rounded.                                                  *)
(***************************************************************************)
Val(n) == [num |-> n, den |-> 1]

ValLess(a, b) == a.num * b.den < b.num * a.den

ValEq(a, b) == a.num * b.den = b.num * a.den

(***************************************************************************)
(* Text of a query.                                                        *)
(***************************************************************************)
NumberTokens == {"n0", "n1", "n2"}

YearTokens == {"y2024"}     \* four digits followed by the year word

MonthTokens == {"m1"}       \* digits followed by the month word

\* the tokens that begin with a run of digits, and int() of that run
DigitLed == NumberTokens \cup YearTokens \cup MonthTokens

NumVal(t) ==
    CASE t = "n0" -> 0 [] t = "n1" -> 1 [] t = "n2" -> 2
      [] t = "y2024" -> 2024 [] t = "m1" -> 1

\* str.lower() of a token or keyword: Hangul, digits and signs stay
Lower(t) ==
    CASE t = "Top" -> "top"
      [] t = "J-6" -> "j-6"
      [] t = "J-6eun?" -> "j-6eun?"
      [] t = "ABCneun?" -> "abcneun?"
      [] t = "A-" -> "a-" [] t = "B-" -> "b-" [] t = "C-" -> "c-"
      [] t = "D-" -> "d-" [] t = "E-" -> "e-" [] t = "F-" -> "f-"
      [] t = "G-" -> "g-" [] t = "H-" -> "h-" [] t = "I-" -> "i-"
      [] t = "J-" -> "j-"
      [] OTHER -> t

\* the keywords of the source that are substrings of a token
Words(t) ==
    CASE t = "georaecheobyeol" -> {"georaecheobyeol", "georaecheo"}
      [] t \in {"n0", "n1", "n2", "sp", "y2024", "m1"} -> {}
      [] t \in {"hello", "hanguk", "ABCneun?", "abcneun?"} -> {}
      [] t = "hangmogeun" -> {"hangmok"}
      [] t = "jeonhwabeonho" -> {"jeonhwa"}
      [] t = "saeopjadeungnokbeonho" -> {"saeopja", "deungnokbeonho"}
      [] t \in {"damdangja yeollakcheo", "B-5"} -> {}
      [] t = "uimiingayo?" -> {"uimi"}
      [] t \in {"J-6", "J-6eun?"} -> {"J-"}
      [] t \in {"j-6", "j-6eun?"} -> {"j-"}
      [] OTHER -> {t}

\* the keywords that occur in a text, and in its lower-cased form
QueryWords(q) == UNION {Words(q[i]) : i \in DOMAIN q}

LowerWords(q) == UNION {Words(Lower(q[i])) : i \in DOMAIN q}

\* any(word in query for word in words)
AnyIn(words, q) == words \cap QueryWords(q) # {}

\* the number that follows position i after any blanks, as <<n>>; <<>> if none
RECURSIVE NumberAfter(_, _)
NumberAfter(q, i) ==
    IF i + 1 > Len(q) THEN <<>>
    ELSE IF q[i + 1] = "sp" THEN NumberAfter(q, i + 1)
    ELSE IF q[i + 1] \in DigitLed THEN <<NumVal(q[i + 1])>>
    ELSE <<>>

\* re.search(r'(cue1|cue2|...)\s*(\d+)', text): the leftmost match, as
\* <<position>>, or <<>> when the pattern does not occur
RankSearch(cues, q, lower) ==
    LET hits == {i \in DOMAIN q :
                    /\ (IF lower THEN Lower(q[i]) ELSE q[i]) \in cues
                    /\ NumberAfter(q, i) # <<>>}
    IN IF hits = {} THEN <<>>
       ELSE <<CHOOSE i \in hits : \A j \in hits : i <= j>>

(***************************************************************************)
(* CalcEngine._select_datasets                                             *)
(***************************************************************************)
select_datasets(query, dataset_filter) ==
    IF dataset_filter # "jeonche" THEN <<dataset_filter>>
    ELSE LET words == QueryWords(query)
             d1 == IF {"georaecheo", "gogaek", "eopche", "sangho"} \cap words # {}
                   THEN <<"georaecheo">> ELSE <<>>
             d2 == IF {"maechul", "panmae", "jumun", "jepum", "danga",
                       "geumaek"} \cap words # {}
                   THEN <<"maechul">> ELSE <<>>
             d3 == IF {"yeongeopilji", "ilji", "bangmun", "memo",
                       "hwaldong"} \cap words # {}
                   THEN <<"ilji">> ELSE <<>>
             datasets == d1 \o d2 \o d3
         IN IF datasets = <<>> THEN <<"maechul">> ELSE datasets

(***************************************************************************)
(* CalcEngine._analyze_query.  The result carries raised = TRUE when the   *)
(* Python code raises (match.group(2) on a pattern with one group).        *)
(***************************************************************************)
analyze_aggregation(words) ==
    IF {"hapgye", "chong", "jeonche"} \cap words # {} THEN "sum"
    ELSE IF "pyeonggyun" \in words THEN "mean"
    ELSE IF {"gaesu", "geonsu", "myeot", "kaunteu"} \cap words # {} THEN "count"
    ELSE IF {"choedae", "choedaetgap", "choego"} \cap words # {} THEN "max"
    ELSE IF {"choeso", "choesotgap", "choejeo"} \cap words # {} THEN "min"
    ELSE "None"

analyze_groupby(words) ==
    IF "georaecheobyeol" \in words THEN "georaecheo"
    ELSE IF "jepumbyeol" \in words \/ "pumokbyeol" \in words THEN "jepum"
    ELSE IF "wolbyeol" \in words THEN "wol"
    ELSE IF "bungibyeol" \in words THEN "bungi"
    ELSE "None"

analyze_time_range(query) ==
    LET years == {i \in DOMAIN query : query[i] \in YearTokens}
        months == {i \in DOMAIN query : query[i] \in MonthTokens}
    IN [year |-> IF years = {} THEN <<>>
                 ELSE <<query[CHOOSE i \in years : \A j \in years : i <= j]>>,
        month |-> IF years = {} \/ months = {} THEN <<>>
                  ELSE <<query[CHOOSE i \in months : \A j \in months : i <= j]>>]

analyze_query(query) ==
    LET words == QueryWords(query)
        base == [raised |-> FALSE,
                 aggregation |-> analyze_aggregation(words),
                 groupby |-> analyze_groupby(words),
                 sort |-> "None",
                 limit |-> <<>>,
                 time_range |-> analyze_time_range(query)]
    IN IF "sangwi" \in words \/ "top" \in LowerWords(query)
       THEN LET match == RankSearch({"top", "sangwi", "hawi"}, query, TRUE)
            IN [base EXCEPT !.sort = "desc",
                            !.limit = IF match # <<>>
                                      THEN NumberAfter(query, match[1])
                                      ELSE <<5>>]
       ELSE IF "hawi" \in words
       THEN LET match == RankSearch({"hawi"}, query, FALSE)
            IN IF match # <<>>
               THEN [base EXCEPT !.raised = TRUE, !.sort = "asc"]
               ELSE [base EXCEPT !.sort = "asc", !.limit = <<5>>]
       ELSE base

(***************************************************************************)
(* Tables (pandas DataFrames): column names, a dtype per column and the    *)
(* rows, each a tuple in column order.                                     *)
(***************************************************************************)
DF(columns, dtypes, rows) ==
    [present |-> TRUE, columns |-> columns, dtypes |-> dtypes, rows |-> rows]

HasCol(df, c) == c \in Range(df.columns)

ColPos(df, c) == CHOOSE i \in DOMAIN df.columns : df.columns[i] = c

IndexSeq(n) == [i \in 1..n |-> i]

\* df.select_dtypes(include=['number']).columns, as column positions
NumericCols(df) ==
    SelectSeq(IndexSeq(Len(df.columns)), LAMBDA i : df.dtypes[i] = "number")

\* the values a group key can take (months, company names, the text of a
\* date that did not parse), in sorted order
KeyOrder ==
    <<"2023-01", "2024-01", "2024-11", "A", "B", "LGhwahak", "NaT", "hanguk",
      "hanhwahwahak">>

RECURSIVE SumSeq(_)
SumSeq(s) == IF s = <<>> THEN 0 ELSE s[1] + SumSeq(Tail(s))

MaxSeq(s) == CHOOSE x \in Range(s) : \A y \in Range(s) : y <= x

MinSeq(s) == CHOOSE x \in Range(s) : \A y \in Range(s) : x <= y

\* seeded fault: the default aggregate is the maximum, not the sum
AggregateDefaultMax(agg_func, values) ==
    CASE agg_func = "mean" -> [num |-> SumSeq(values), den |-> Len(values)]
      [] agg_func = "count" -> Val(Len(values))
      [] agg_func = "min" -> Val(MinSeq(values))
      [] OTHER -> Val(MaxSeq(values))

\* one aggregate of a non-empty list of numbers
Aggregate(agg_func, values) ==
    CASE agg_func = "mean" -> [num |-> SumSeq(values), den |-> Len(values)]
      [] agg_func = "count" -> Val(Len(values))
      [] agg_func = "max" -> Val(MaxSeq(values))
      [] agg_func = "min" -> Val(MinSeq(values))
      [] OTHER -> Val(SumSeq(values))

\* the column at position c of the rows whose column k holds key
GroupValues(df, k, key, c) ==
    LET members == SelectSeq(df.rows, LAMBDA r : r[k] = key)
    IN [i \in DOMAIN members |-> members[i][c]]

(***************************************************************************)
(* CodebookLoader.get_column_mapping: the code -> display name dictionary  *)
(* of a file type ("sales data" has one here, the others have none).       *)
(***************************************************************************)
get_column_mapping(file_type) ==
    IF file_type = "sales data"
    THEN ("B-1" :> "georaecheomyeong") @@ ("D-1" :> "geumaek")
    ELSE <<>>

\* CalcEngine._translate_columns
translate_columns(df, dataset_name) ==
    LET file_type == CASE dataset_name = "georaecheo" -> "georaecheo data"
                       [] dataset_name = "maechul" -> "sales data"
                       [] dataset_name = "ilji" -> "ilji"
                       [] OTHER -> dataset_name
        column_mapping == get_column_mapping(file_type)
    IN [df EXCEPT !.columns =
            [i \in DOMAIN df.columns |->
                IF df.columns[i] \in DOMAIN column_mapping
                THEN column_mapping[df.columns[i]]
                ELSE df.columns[i]]]

(***************************************************************************)
(* CalcEngine._perform_groupby.  For a month group-by the code first       *)
(* writes a month column into the frame it was given (WithMonth).          *)
(***************************************************************************)
\* the year, month and day of a date cell "yyyy-mm-dd"
DateParts(date) ==
    CASE date = "2024-01-05" -> <<"2024", "01", "05">>
      [] date = "2023-01-15" -> <<"2023", "01", "15">>
      [] date = "2024-11-01" -> <<"2024", "11", "01">>
      [] OTHER -> <<"", "", "">>

\* pd.to_datetime(date, errors='coerce').to_period('M') as text
MonthOf(date) ==
    IF DateParts(date)[1] = "" THEN "NaT"
    ELSE CASE date = "2024-01-05" -> "2024-01"
           [] date = "2023-01-15" -> "2023-01"
           [] date = "2024-11-01" -> "2024-11"

WithMonth(df) ==
    IF HasCol(df, "wol")
    THEN [df EXCEPT !.rows = [i \in DOMAIN df.rows |->
              [df.rows[i] EXCEPT ![ColPos(df, "wol")] =
                  MonthOf(df.rows[i][ColPos(df, "A-2")])]]]
    ELSE [df EXCEPT !.columns = Append(df.columns, "wol"),
                    !.dtypes = Append(df.dtypes, "object"),
                    !.rows = [i \in DOMAIN df.rows |->
                        Append(df.rows[i], MonthOf(df.rows[i][ColPos(df, "A-2")]))]]

\* the frame _perform_groupby works on after its optional column write
GroupbyFrame(df, analysis) ==
    IF analysis.groupby = "wol" /\ HasCol(df, "A-2") THEN WithMonth(df) ELSE df

groupby_col(df, analysis) ==
    CASE analysis.groupby = "georaecheo" /\ HasCol(df, "B-1") -> "B-1"
      [] analysis.groupby = "jepum" /\ HasCol(df, "C-2") -> "C-2"
      [] analysis.groupby = "wol" /\ HasCol(df, "A-2") -> "wol"
      [] OTHER -> "None"

\* the group keys present in column k, sorted
GroupKeys(df, k) ==
    SelectSeq(KeyOrder, LAMBDA key : \E i \in DOMAIN df.rows : df.rows[i][k] = key)

perform_groupby(df0, analysis, dataset_name) ==
    LET df == GroupbyFrame(df0, analysis)
        col == groupby_col(df0, analysis)
    IN IF col = "None" \/ ~HasCol(df, col) THEN NoneDF
       ELSE
       LET k == ColPos(df, col)
           keys == GroupKeys(df, k)
           numeric_cols == NumericCols(df)
           agg_func == IF analysis.aggregation = "None" THEN "sum"
                       ELSE analysis.aggregation
           sizes == DF(<<col, "geonsu">>, <<"object", "number">>,
                       [g \in DOMAIN keys |->
                           <<keys[g], Val(Len(GroupValues(df, k, keys[g], k)))>>])
           aggregated ==
               DF(<<col>> \o [j \in DOMAIN numeric_cols |-> df.columns[numeric_cols[j]]],
                  <<"object">> \o [j \in DOMAIN numeric_cols |-> "number"],
                  [g \in DOMAIN keys |->
                      <<keys[g]>> \o
                      [j \in DOMAIN numeric_cols |->
                          Aggregate(agg_func,
                                    GroupValues(df, k, keys[g], numeric_cols[j]))]])
       IN translate_columns(
              IF numeric_cols = <<>> \/ agg_func = "count" THEN sizes ELSE aggregated,
              dataset_name)

(***************************************************************************)
(* CalcEngine._perform_simple_aggregation                                  *)
(***************************************************************************)
NaN == [num |-> 0, den |-> 0]

\* pandas on an empty column: sum 0, count 0, mean/max/min NaN
AggregateColumn(agg_func, values) ==
    IF values # <<>> THEN Aggregate(agg_func, values)
    ELSE IF agg_func \in {"mean", "max", "min"} THEN NaN ELSE Val(0)

perform_simple_aggregation(df, analysis, dataset_name) ==
    LET numeric_cols == NumericCols(df)
        used == SubSeq(numeric_cols, 1, MinOf(5, Len(numeric_cols)))
        agg_func == IF analysis.aggregation = "None" THEN "sum"
                    ELSE analysis.aggregation
    IN IF numeric_cols = <<>>
       THEN DF(<<"geonsu">>, <<"number">>, << <<Val(Len(df.rows))>> >>)
       ELSE translate_columns(
                DF([j \in DOMAIN used |-> df.columns[used[j]]],
                   [j \in DOMAIN used |-> "number"],
                   << [j \in DOMAIN used |->
                          AggregateColumn(agg_func,
                              [i \in DOMAIN df.rows |-> df.rows[i][used[j]]])] >>),
                dataset_name)

(***************************************************************************)
(* CalcEngine._calculate_single_dataset                                    *)
(***************************************************************************)
\* the text a date token contributes: the year digits, the month zfill(2)
TokenYear(t) == "2024"

TokenMonth(t) == "01"

\* astype(str).str.contains(year, na=False) on a date cell
ContainsYear(date, year) == DateParts(date)[1] = year

\* astype(str).str.contains("-" + month, na=False): the month or the day
ContainsDashMonth(date, month) ==
    DateParts(date)[2] = month \/ DateParts(date)[3] = month

DateFiltered(df, time_range) ==
    IF time_range.year = <<>> \/ ~HasCol(df, "A-2") THEN df
    ELSE LET a2 == ColPos(df, "A-2")
             byYear == SelectSeq(df.rows, LAMBDA r :
                          ContainsYear(r[a2], TokenYear(time_range.year[1])))
             byMonth == IF time_range.month = <<>> THEN byYear
                        ELSE SelectSeq(byYear, LAMBDA r :
                                ContainsDashMonth(r[a2], TokenMonth(time_range.month[1])))
         IN [df EXCEPT !.rows = byMonth]

DateConditions(df, time_range) ==
    IF time_range.year = <<>> \/ ~HasCol(df, "A-2") THEN <<>>
    ELSE <<"year">> \o (IF time_range.month = <<>> THEN <<>> ELSE <<"month">>)

\* the orders result_df.sort_values(by=column c, ascending=...) may return:
\* every arrangement of the rows that is sorted on c (ties in any order)
SortedOrders(rows, c, ascending) ==
    {p \in Permutations(DOMAIN rows) :
        \A i, j \in DOMAIN rows :
            i < j => IF ascending THEN ~ValLess(rows[p[j]][c], rows[p[i]][c])
                     ELSE ~ValLess(rows[p[i]][c], rows[p[j]][c])}

\* seeded fault: a head(n) that keeps every row
HeadRowsKeepAll(rows, n) == rows

\* DataFrame.head(n)
HeadRows(rows, n) == SubSeq(rows, 1, MinOf(n, Len(rows)))

\* seeded fault: only a missing result gives the no-result text
generate_calc_answer_unless_none(result_df) ==
    IF ~result_df.present THEN "no_result"
    ELSE IF Len(result_df.rows) = 1 /\ Len(result_df.columns) <= 3 THEN "value_list"
    ELSE "table"

\* CalcEngine._generate_calc_answer, by the kind of text it returns
generate_calc_answer(result_df) ==
    IF ~result_df.present \/ Len(result_df.rows) = 0 THEN "no_result"
    ELSE IF Len(result_df.rows) = 1 /\ Len(result_df.columns) <= 3 THEN "value_list"
    ELSE "table"

\* CalcEngine._extract_sample_rows
extract_sample_rows(result_df, limit) ==
    IF ~result_df.present THEN <<>> ELSE HeadRows(result_df.rows, limit)

CalcResult(answer, result_df, filter_conditions, sql) ==
    [raised |-> FALSE,
     answer |-> answer,
     result_df |-> result_df,
     filter_conditions |-> filter_conditions,
     sample_rows |-> extract_sample_rows(result_df, 5),
     sql_equivalent |-> sql]

RaisedResult ==
    [raised |-> TRUE, answer |-> "", result_df |-> NoneDF,
     filter_conditions |-> <<>>, sample_rows |-> <<>>, sql_equivalent |-> ""]

\* the results the sort-and-limit step (lines 187-198) may give
SortAndLimit(result_df, analysis) ==
    IF analysis.sort = "None" \/ ~result_df.present \/ NumericCols(result_df) = <<>>
    THEN {[df |-> result_df, conditions |-> <<>>]}
    ELSE LET sort_col == NumericCols(result_df)[1]
             ascending == (analysis.sort = "asc")
             limited == analysis.limit # <<>> /\ analysis.limit[1] # 0
         IN {[df |-> [result_df EXCEPT !.rows =
                        LET sorted == [i \in DOMAIN result_df.rows |->
                                          result_df.rows[p[i]]]
                        IN IF limited THEN HeadRows(sorted, analysis.limit[1])
                           ELSE sorted],
              conditions |-> IF limited
                             THEN << <<IF ascending THEN "hawi" ELSE "sangwi",
                                       analysis.limit[1]>> >>
                             ELSE <<>>] :
             p \in SortedOrders(result_df.rows, sort_col, ascending)}

\* the set of results the call may return
calculate_single_dataset(frames, query, dataset_name, analysis) ==
    LET df0 == IF dataset_name \in DOMAIN frames THEN frames[dataset_name]
               ELSE NoneDF
    IN IF ~df0.present
       THEN {CalcResult("load_failed", NoneDF, <<>>, "")}
       ELSE LET df == DateFiltered(df0, analysis.time_range)
                grouped == IF analysis.groupby # "None"
                           THEN perform_groupby(df, analysis, dataset_name)
                           ELSE perform_simple_aggregation(df, analysis, dataset_name)
            IN {CalcResult(generate_calc_answer(s.df), s.df,
                           DateConditions(df0, analysis.time_range) \o s.conditions,
                           dataset_name) :
                s \in SortAndLimit(grouped, analysis)}

\* the frames the loader holds after the call: a month group-by on an
\* unfiltered frame writes its month column into the loaded table itself
FramesAfter(frames, dataset_name, analysis) ==
    IF /\ dataset_name \in DOMAIN frames
       /\ frames[dataset_name].present
       /\ analysis.groupby = "wol"
       /\ HasCol(frames[dataset_name], "A-2")
       /\ analysis.time_range.year = <<>>
    THEN [frames EXCEPT ![dataset_name] = WithMonth(frames[dataset_name])]
    ELSE frames

(***************************************************************************)
(* CalcEngine.calculate                                                    *)
(***************************************************************************)
calculate(frames, query, dataset_filter) ==
    LET target_datasets == select_datasets(query, dataset_filter)
        analysis == analyze_query(query)
    IN IF analysis.raised
       THEN [results |-> {RaisedResult}, frames |-> frames]
       ELSE [results |-> calculate_single_dataset(frames, query,
                                                  target_datasets[1], analysis),
             frames |-> FramesAfter(frames, target_datasets[1], analysis)]

(***************************************************************************)
(* The aggregation engine as a state machine: the loader holds the sales   *)
(* table (the other two files did not load), and calculate is called any   *)
(* number of times.                                                        *)
(***************************************************************************)
\* the rows a sales table is built from: company (B-1) and amount (D-1)
RankRows == {<<"A", 100>>, <<"B", 100>>, <<"B", 300>>}

AggRows == {<<"A", 50>>, <<"A", 100>>, <<"B", 300>>}

\* the words the queries are written with
RankTokens == {"sangwi", "hawi", "Top", "n0", "n1", "n2", "georaecheobyeol"}

AggTokens == {"Top", "sp", "n1", "georaecheobyeol", "choedae"}

DatasetFilters == {"jeonche", "maechul"}

\* a query is a tokenised text: two numbers never stand side by side
QueriesOver(tokens) ==
    {q \in SeqsUpTo(tokens, MaxQueryLen) :
        \A i \in 1..(Len(q) - 1) :
            ~(q[i] \in NumberTokens /\ q[i + 1] \in NumberTokens)}

\* a sales file that loaded holds at least one row
SalesTables(rowset) ==
    {DF(<<"B-1", "D-1">>, <<"object", "number">>, rows) :
        rows \in SeqsUpTo(rowset, MaxRows) \ {<<>>}}

\* DataLoader.load_all_data with only the sales file readable
CalcInit(rowset) ==
    /\ raw_dataframes \in {("maechul" :> t) : t \in SalesTables(rowset)}
    /\ calc_query = <<>>
    /\ calc_filter = "jeonche"
    /\ calc_result = NoCall
    /\ RouterIdle
    /\ MaskIdle
    /\ CellIdle
    /\ JoinIdle
    /\ RestIdle

\* one call of calculate, from the idle engines (requests are served one
\* at a time)
Calculate(queries) ==
    /\ calc_result = NoCall
    /\ lookup_result = NoLookup
    /\ \E query \in queries, dataset_filter \in DatasetFilters :
        /\ calc_query' = query
        /\ calc_filter' = dataset_filter
        /\ LET call == calculate(raw_dataframes, query, dataset_filter)
           IN /\ calc_result' \in call.results
              /\ raw_dataframes' = call.frames
    /\ UNCHANGED <<routerVars, maskVars, cellVars, joinVars, restVars>>

\* the caller takes the result and goes on to its next question
NextRequest ==
    /\ calc_result # NoCall
    /\ calc_query' = <<>>
    /\ calc_filter' = "jeonche"
    /\ calc_result' = NoCall
    /\ UNCHANGED <<raw_dataframes, routerVars, maskVars, cellVars, joinVars, restVars>>

CalcNext == Calculate(QueriesOver(RankTokens)) \/ NextRequest

SpecCalc == CalcInit(RankRows) /\ [][CalcNext]_vars

CalcAggNext == Calculate(QueriesOver(AggTokens)) \/ NextRequest

SpecCalcAgg == CalcInit(AggRows) /\ [][CalcAggNext]_vars

(***************************************************************************)
(* Claims about the aggregation engine.                                    *)
(***************************************************************************)
\* the table the last call selected is one the loader holds
SelectedLoaded ==
    /\ calc_result # NoCall
    /\ select_datasets(calc_query, calc_filter)[1] \in DOMAIN raw_dataframes

SelectedTable == raw_dataframes[select_datasets(calc_query, calc_filter)[1]]

\* the positions of the explicit top-N tokens of a query
TopNTokens(q) ==
    {i \in DOMAIN q : Lower(q[i]) \in {"sangwi", "top"} /\ NumberAfter(q, i) # <<>>}

\* the positions of the explicit bottom-N tokens of a query
BottomNTokens(q) ==
    {i \in DOMAIN q : q[i] = "hawi" /\ NumberAfter(q, i) # <<>>}

HasTopCue(q) == \E i \in DOMAIN q : Lower(q[i]) \in {"sangwi", "top"}

FirstOf(S) == CHOOSE i \in S : \A j \in S : i <= j

\* the groups the selected table offers to a query
AvailableGroups(q, df) ==
    IF "georaecheobyeol" \in Range(q)
    THEN Cardinality({df.rows[i][1] : i \in DOMAIN df.rows})
    ELSE 1

\* the first numeric column of the result table, by position
ResultKey(df) == CHOOSE c \in DOMAIN df.dtypes :
                    /\ df.dtypes[c] = "number"
                    /\ \A d \in DOMAIN df.dtypes : df.dtypes[d] = "number" => c <= d

StrictlyDescending(df) ==
    \A i, j \in DOMAIN df.rows :
        i < j => ValLess(df.rows[j][ResultKey(df)], df.rows[i][ResultKey(df)])

Descending(df) ==
    \A i, j \in DOMAIN df.rows :
        i < j => ~ValLess(df.rows[i][ResultKey(df)], df.rows[j][ResultKey(df)])

Ascending(df) ==
    \A i, j \in DOMAIN df.rows :
        i < j => ~ValLess(df.rows[j][ResultKey(df)], df.rows[i][ResultKey(df)])

RankN(q) ==
    NumberAfter(q, FirstOf({i \in DOMAIN q :
                               /\ Lower(q[i]) \in {"top", "sangwi", "hawi"}
                               /\ NumberAfter(q, i) # <<>>}))[1]

HasRankN(q) ==
    \E i \in DOMAIN q : /\ Lower(q[i]) \in {"top", "sangwi", "hawi"}
                        /\ NumberAfter(q, i) # <<>>

C2_BottomN ==
    (/\ SelectedLoaded
     /\ BottomNTokens(calc_query) # {}
     /\ ~HasTopCue(calc_query)) =>
        /\ ~calc_result.raised
        /\ calc_result.result_df.present
        /\ Len(calc_result.result_df.rows) =
               MinOf(NumberAfter(calc_query, FirstOf(BottomNTokens(calc_query)))[1],
                     AvailableGroups(calc_query, SelectedTable))
        /\ Ascending(calc_result.result_df)

\* the total amount of one company over the rows of a sales table
RECURSIVE RowSum(_, _)
RowSum(rows, key) ==
    IF rows = <<>> THEN 0
    ELSE (IF rows[1][1] = key THEN rows[1][2] ELSE 0) + RowSum(Tail(rows), key)

\* one row per distinct company of the table, holding the company's total
CompanyTotals(df) ==
    {<<df.rows[i][1], Val(RowSum(df.rows, df.rows[i][1]))>> : i \in DOMAIN df.rows}

\* C3: a group-by-company query that names no aggregation function gives
\* one row per distinct company holding the sum of the numeric column; when
\* it also says top 1, the single row is a company with the largest sum.
C3_GroupBySum ==
    (/\ SelectedLoaded
     /\ "georaecheobyeol" \in Range(calc_query)
     /\ analyze_aggregation(QueryWords(calc_query)) = "None") =>
        /\ ~calc_result.raised
        /\ calc_result.result_df.present
        /\ IF HasTopCue(calc_query) /\ HasRankN(calc_query) /\ RankN(calc_query) = 1
           THEN /\ Len(calc_result.result_df.rows) = 1
                /\ calc_result.result_df.rows[1] \in CompanyTotals(SelectedTable)
                /\ \A t \in CompanyTotals(SelectedTable) :
                       ~ValLess(calc_result.result_df.rows[1][2], t[2])
           ELSE /\ Range(calc_result.result_df.rows) = CompanyTotals(SelectedTable)
                /\ Len(calc_result.result_df.rows) =
                       Cardinality(CompanyTotals(SelectedTable))

\* the rows (A,100), (B,300), (A,50) asked for the top 1 company: (B,300)
C3_Witness ==
    /\ SelectedLoaded
    /\ SelectedTable.rows = << <<"A", 100>>, <<"B", 300>>, <<"A", 50>> >>
    /\ calc_query = <<"georaecheobyeol", "Top", "n1">>
    /\ calc_result.result_df.rows = << <<"B", Val(300)>> >>

(***************************************************************************)
(* QueryRouter.  A routed query is the sequence of its blank-separated     *)
(* words.  Scores are counted in halves (a score of 1.5 is 3) and a        *)
(* confidence in thirtieths (0.3 is 9, 0.6 is 18, 1.0 is 30).              *)
(***************************************************************************)
CALC_KEYWORDS ==
    <<"hapgye", "chong", "pyeonggyun", "choedae", "choeso", "choedaetgap",
      "choesotgap", "sangwi", "hawi", "Top", "top", "raengking", "sunwi",
      "chui", "jeonwol", "jeonnyeon", "jeunggam", "jeungga", "gamso",
      "byeonhwa", "wolbyeol", "bungibyeol", "nyeondobyeol", "giganbyeol",
      "ilbyeol", "jubyeol", "geurupbyeol", "georaecheobyeol", "jepumbyeol",
      "pumokbyeol", "jiyeokbyeol", "damdangjabyeol", "pilteo", "jogeon",
      "beomwi", "myeot", "eolma", "myeotgae", "myeotgeon", "geonsu", "gaesu",
      "suryang", "biyul", "peosenteu", "%", "jeomyuyul", "bijung">>

LOOKUP_KEYWORDS ==
    <<"teukjeong", "haedang", "i georaecheo", "i jumun", "i jepum",
      "eonje", "nuga", "eodi", "mueot",
      "jumunbeonho", "georaekodeu", "saeopjabeonho">>

RAG_KEYWORDS ==
    <<"iran", "mueot", "mwoya", "seolmyeong", "jeongui", "uimi",
      "eotteoke", "wae", "iyu", "bangbeop",
      "yeongeopilji", "ilji", "memo", "girok", "noteu",
      "gyujeong", "gaideu", "jichim", "jeongchaek",
      "kodeubuk", "hangmok", "keolleom", "pildeu", "deiteo",
      "A-", "B-", "C-", "D-", "E-", "F-", "G-", "H-", "I-", "J-">>

\* query.lower()
LowerText(query) == [i \in DOMAIN query |-> Lower(query[i])]

\* QueryRouter._calculate_score, in halves: one point per list entry whose
\* lower-cased form occurs in the (lower-cased) query
calculate_score(query, keywords) ==
    LET words == QueryWords(query)
    IN 2 * Cardinality({i \in DOMAIN keywords : Lower(keywords[i]) \in words})

\* re.search(r'\w+byeol', query): a word character followed by the suffix
MatchesByeol(query) ==
    \E i \in DOMAIN query :
        query[i] \in {"georaecheobyeol", "jepumbyeol", "pumokbyeol",
                      "wolbyeol", "bungibyeol"}

\* re.search(r'(iran|ran|neun|eun|mueot|mwo|uimi|seolmyeong|ingayo|inga)\?*$')
MatchesSuffix(query) ==
    /\ query # <<>>
    /\ query[Len(query)] \in {"hangmogeun", "uimiingayo?", "mueot", "ABCneun?",
                              "J-6eun?"}

\* re.findall(r'[ga-hih]{2,}', query): the runs of two or more Hangul
\* syllables of one word
HangulRuns(t) ==
    CASE t \in {"sangwi", "hawi", "georaecheobyeol", "hangmogeun", "mueot",
                "eonje", "hanguk", "bigyo", "choedae", "choegeun", "bangmun",
                "maechul", "hanhwahwahak", "wolbyeol", "hapgye"} -> {t}
      [] t = "uimiingayo?" -> {"uimiingayo"}
      [] t = "LGhwahak" -> {"hwahak"}
      [] OTHER -> {}

\* QueryRouter._contains_specific_name
contains_specific_name(query) ==
    LET matches == UNION {HangulRuns(query[i]) : i \in DOMAIN query}
        question_words == {"mueot", "eodi", "eonje", "nugu", "wae", "eotteoke",
                           "hapgye", "pyeonggyun", "allyeo", "boyeo"}
    IN \E match \in matches : match \notin question_words

\* re.search of the date pattern: year, month or day number, or a word
\* for recent, last, this year, last year
MatchesDate(query) ==
    \/ \E i \in DOMAIN query : query[i] \in YearTokens \cup MonthTokens
    \/ AnyIn({"choegeun", "jinan", "olhae", "jangnyeon"}, query)

\* QueryRouter._generate_reasoning: the positive scores and the choice
generate_reasoning(scores, selected_mode) ==
    LET positive == {m \in DOMAIN scores : scores[m] > 0}
    IN IF positive = {} THEN [text |-> "no_keyword", scores |-> <<>>]
       ELSE [text |-> selected_mode,
             scores |-> [m \in positive |-> scores[m]]]

\* seeded fault: the default result carries a confidence of 0.5
default_result_half ==
    [mode |-> "LOOKUP", confidence |-> 15,
     reasoning |-> [text |-> "default", scores |-> <<>>]]

\* the result of route when every score is 0
default_result ==
    [mode |-> "LOOKUP", confidence |-> 9,
     reasoning |-> [text |-> "default", scores |-> <<>>]]

MaxOf3(a, b, c) ==
    IF a >= b /\ a >= c THEN a ELSE IF b >= c THEN b ELSE c

\* seeded fault: the last of CALC, LOOKUP, RAG that holds the largest score
select_mode_last(scores) ==
    LET max_score == MaxOf3(scores.CALC, scores.LOOKUP, scores.RAG)
    IN IF scores.RAG = max_score THEN "RAG"
       ELSE IF scores.LOOKUP = max_score THEN "LOOKUP"
       ELSE "CALC"

\* max(scores.items(), key=...)[0]: the first of CALC, LOOKUP, RAG that
\* holds the largest score
select_mode(scores) ==
    LET max_score == MaxOf3(scores.CALC, scores.LOOKUP, scores.RAG)
    IN IF scores.CALC = max_score THEN "CALC"
       ELSE IF scores.LOOKUP = max_score THEN "LOOKUP"
       ELSE "RAG"

\* seeded fault: a confidence that is not capped at 1.0
confidence_uncapped(max_score) == 5 * max_score

\* min(max_score / 3.0, 1.0), in thirtieths, of a score in halves
confidence_of(max_score) == MinOf(5 * max_score, 30)

\* seeded fault: a rule that credits both modes
credit_both(fired, calc_score, lookup_score, calc_bonus, lookup_bonus) ==
    IF ~fired THEN [calc |-> calc_score, lookup |-> lookup_score]
    ELSE [calc |-> calc_score + calc_bonus, lookup |-> lookup_score + lookup_bonus]

\* lines 92-96 and 100-104: a rule that fired credits the aggregation
\* score when that is positive so far, and the lookup score otherwise
credit(fired, calc_score, lookup_score, calc_bonus, lookup_bonus) ==
    IF ~fired THEN [calc |-> calc_score, lookup |-> lookup_score]
    ELSE IF calc_score > 0
    THEN [calc |-> calc_score + calc_bonus, lookup |-> lookup_score]
    ELSE [calc |-> calc_score, lookup |-> lookup_score + lookup_bonus]

\* lines 68-84: the aggregation score of the keywords and of rules 1 to 3
calc_score_so_far(query) ==
    LET query_lower == LowerText(query)
        calc0 == calculate_score(query_lower, CALC_KEYWORDS)
        \* rule 1: a rank word followed by a number
        calc1 == IF RankSearch({"top", "sangwi", "hawi"}, query_lower, FALSE) # <<>>
                 THEN calc0 + 4 ELSE calc0
        \* rule 2: a group-by word
        calc2 == IF MatchesByeol(query) THEN calc1 + 3 ELSE calc1
        \* rule 3: a comparison or range word
    IN IF AnyIn({"bigyo", "chai", "isang", "iha", "chogwa", "miman"}, query)
       THEN calc2 + 2 ELSE calc2

\* lines 69-70 and 86-89: the lookup score of the keywords and of rule 4
lookup_score_so_far(query) ==
    LET lookup0 == calculate_score(LowerText(query), LOOKUP_KEYWORDS)
    IN IF MatchesSuffix(query) THEN lookup0 - 2 ELSE lookup0

\* lines 68-110: the final scores
route_scores(query) ==
    LET rag0 == calculate_score(LowerText(query), RAG_KEYWORDS)
        \* rule 4: a definition or question ending
        rag1 == IF MatchesSuffix(query) THEN rag0 + 6 ELSE rag0
        \* rule 5: a specific name
        rule5 == credit(contains_specific_name(query), calc_score_so_far(query),
                        lookup_score_so_far(query), 2, 4)
        \* rule 6: a date expression
        rule6 == credit(MatchesDate(query), rule5.calc, rule5.lookup, 2, 1)
    IN [CALC |-> rule6.calc, LOOKUP |-> rule6.lookup, RAG |-> rag1]

\* seeded fault: only the aggregation score decides whether a mode matched
max_score_calc_only(scores) == scores.CALC

\* max(scores.values())
max_score_of(scores) == MaxOf3(scores.CALC, scores.LOOKUP, scores.RAG)

\* QueryRouter.route
route(query) ==
    LET scores == route_scores(query)
        max_score == max_score_of(scores)
    IN IF max_score = 0 THEN default_result
       ELSE [mode |-> select_mode(scores),
             confidence |-> confidence_of(max_score),
             reasoning |-> generate_reasoning(scores, select_mode(scores))]

(***************************************************************************)
(* The router as a state machine: route is called with any query of up to  *)
(* MaxWords words, and the caller takes the result.                        *)
(***************************************************************************)
MaxWords == 3

RouterTokens ==
    {"sangwi", "Top", "n1", "georaecheobyeol", "J-6", "hangmogeun",
     "uimiingayo?", "mueot", "eonje", "hello", "y2024", "ABCneun?", "hanguk",
     "bigyo", "J-6eun?"}

RouterInit ==
    RouterIdle /\ CalcIdle /\ MaskIdle /\ CellIdle /\ JoinIdle /\ RestIdle

Route ==
    /\ routing_result = NoRoute
    /\ \E query \in SeqsUpTo(RouterTokens, MaxWords) :
        /\ route_query' = query
        /\ routing_result' = route(query)
    /\ UNCHANGED <<calcVars, maskVars, cellVars, joinVars, restVars>>

RouteTaken ==
    /\ routing_result # NoRoute
    /\ route_query' = <<>>
    /\ routing_result' = NoRoute
    /\ UNCHANGED <<calcVars, maskVars, cellVars, joinVars, restVars>>

RouterNext == Route \/ RouteTaken

SpecRouter == RouterInit /\ [][RouterNext]_vars

(***************************************************************************)
(* Claims about the router.                                                *)
(***************************************************************************)
Routed == routing_result # NoRoute

\* no entry of the CALC, LOOKUP or RAG keyword lists occurs in the query
KeywordFree(q) ==
    /\ calculate_score(LowerText(q), CALC_KEYWORDS) = 0
    /\ calculate_score(LowerText(q), LOOKUP_KEYWORDS) = 0
    /\ calculate_score(LowerText(q), RAG_KEYWORDS) = 0

\* none of the bonus rules 2 to 6 applies to the query
NoBonusRule(q) ==
    /\ ~MatchesByeol(q)
    /\ ~AnyIn({"bigyo", "chai", "isang", "iha", "chogwa", "miman"}, q)
    /\ ~MatchesSuffix(q)
    /\ ~contains_specific_name(q)
    /\ ~MatchesDate(q)

\* C4 as stated: a query that matches no keyword of the three lists is
\* routed to LOOKUP with a confidence of exactly 0.3.
C4_DefaultLookup ==
    (Routed /\ KeywordFree(route_query)) =>
        /\ routing_result.mode = "LOOKUP"
        /\ routing_result.confidence = 9

\* C4 amended: a query that matches no keyword of the three lists and to
\* which none of the bonus rules applies (no group-by word, comparison
\* word, definition ending, Hangul name or date) is routed to LOOKUP with a
\* confidence of exactly 0.3.
C4_DefaultLookupNoRule ==
    (Routed /\ KeywordFree(route_query) /\ NoBonusRule(route_query)) =>
        /\ routing_result.mode = "LOOKUP"
        /\ routing_result.confidence = 9

\* a query of two words without keyword or bonus rule has been routed
C4_Witness ==
    /\ Routed
    /\ route_query = <<"hello", "n1">>
    /\ routing_result.mode = "LOOKUP"
    /\ routing_result.confidence = 9

\* the query mentions a field code
MentionsFieldCode(q) ==
    {"A-", "B-", "C-", "D-", "E-", "F-", "G-", "H-", "I-", "J-"} \cap QueryWords(q) # {}

\* the score the reasoning of a result reports for a mode (0 when the
\* score is not positive)
ReportedScore(result, m) ==
    IF m \in DOMAIN result.reasoning.scores THEN result.reasoning.scores[m] ELSE 0

\* C5 as stated: a query that mentions a field code and ends with a
\* definition or question suffix is routed to RAG with confidence >= 0.6.
C5_FieldCodeRag ==
    (Routed /\ MentionsFieldCode(route_query) /\ MatchesSuffix(route_query)) =>
        /\ routing_result.mode = "RAG"
        /\ routing_result.confidence >= 18

\* C5 amended: a query that mentions a field code and ends with a
\* definition or question suffix is routed with confidence >= 0.6, and to
\* RAG exactly when its RAG score is larger than its CALC score and its
\* LOOKUP score.
C5_FieldCodeRagIfLargest ==
    (Routed /\ MentionsFieldCode(route_query) /\ MatchesSuffix(route_query)) =>
        /\ routing_result.confidence >= 18
        /\ routing_result.mode = "RAG" <=>
               /\ ReportedScore(routing_result, "RAG") >
                      ReportedScore(routing_result, "CALC")
               /\ ReportedScore(routing_result, "RAG") >
                      ReportedScore(routing_result, "LOOKUP")

\* "J-6 hangmogeun uimiingayo?" has been routed to RAG
C5_Witness ==
    /\ Routed
    /\ route_query = <<"J-6", "hangmogeun", "uimiingayo?">>
    /\ routing_result.mode = "RAG"
    /\ routing_result.confidence >= 18

\* the largest score the reasoning of a result reports
ReportedMax(result) ==
    MaxOf3(ReportedScore(result, "CALC"), ReportedScore(result, "LOOKUP"),
           ReportedScore(result, "RAG"))

\* C6: route returns one of CALC, LOOKUP, RAG with a confidence in [0, 1],
\* and unless the default was taken the confidence is
\* min(max_score / 3.0, 1.0).
C6_ModeAndConfidence ==
    Routed =>
        /\ routing_result.mode \in {"CALC", "LOOKUP", "RAG"}
        /\ routing_result.confidence >= 0
        /\ routing_result.confidence <= 30
        /\ routing_result.reasoning.text # "default" =>
               routing_result.confidence =
                   MinOf(5 * ReportedMax(routing_result), 30)

\* a query whose largest score is above 3.0 has been routed with
\* confidence 1.0
C6_Witness ==
    /\ Routed
    /\ routing_result.reasoning.text # "default"
    /\ 5 * ReportedMax(routing_result) > 30
    /\ routing_result.confidence = 30

(***************************************************************************)
(* utils.mask_sensitive_info.  A text is the sequence of its characters;   *)
(* "d" stands for any digit, "-" for the hyphen and "*" for the asterisk.  *)
(* The function keeps every character in place or writes "*" over it, so   *)
(* which digit a "d" is does not matter.                                   *)
(***************************************************************************)
\* config.SENSITIVE_PATTERNS in dict order: the digit runs of each pattern,
\* joined by hyphens, as <<least, most>> digits per run
SENSITIVE_PATTERNS ==
    << [info_type |-> "saeopjadeungnokbeonho",
        pattern |-> << <<3, 3>>, <<2, 2>>, <<5, 5>> >>],
       [info_type |-> "jumindeungnokbeonho",
        pattern |-> << <<6, 6>>, <<7, 7>> >>],
       [info_type |-> "jeonhwabeonho",
        pattern |-> << <<2, 3>>, <<3, 4>>, <<4, 4>> >>] >>

\* the number of digits that stand at position p and after it
RECURSIVE DigitRun(_, _)
DigitRun(text, p) ==
    IF p > Len(text) \/ text[p] # "d" THEN 0 ELSE 1 + DigitRun(text, p + 1)

\* the length of the match of a pattern that starts at position p, 0 when
\* there is none: a run before a hyphen takes all the digits up to it, the
\* last run takes as many digits as it may
RECURSIVE MatchLen(_, _, _)
MatchLen(pattern, text, p) ==
    LET run == DigitRun(text, p)
        lo == pattern[1][1]
        hi == pattern[1][2]
    IN IF Len(pattern) = 1
       THEN IF run >= lo THEN MinOf(run, hi) ELSE 0
       ELSE IF /\ run >= lo
               /\ run <= hi
               /\ p + run <= Len(text)
               /\ text[p + run] = "-"
            THEN LET rest == MatchLen(Tail(pattern), text, p + run + 1)
                 IN IF rest = 0 THEN 0 ELSE run + 1 + rest
            ELSE 0

Stars(n) == [i \in 1..n |-> "*"]

\* original.split("-")
RECURSIVE Split(_)
Split(original) ==
    IF \A i \in DOMAIN original : original[i] # "-" THEN <<original>>
    ELSE LET h == CHOOSE i \in DOMAIN original :
                      /\ original[i] = "-"
                      /\ \A j \in 1..(i - 1) : original[j] # "-"
         IN <<SubSeq(original, 1, h - 1)>>
                \o Split(SubSeq(original, h + 1, Len(original)))

\* mask_match: what one match is replaced with
mask_match(info_type, original) ==
    LET parts == Split(original)
    IN CASE info_type = "saeopjadeungnokbeonho" /\ Len(parts) = 3 ->
                parts[1] \o <<"-", "*", "*", "-", "*", "*", "*">>
                    \o SubSeq(parts[3], Len(parts[3]) - 1, Len(parts[3]))
         [] info_type = "jumindeungnokbeonho" /\ Len(parts) = 2 ->
                parts[1] \o <<"-">> \o Stars(7)
         [] info_type = "jeonhwabeonho" /\ Len(parts) = 3 ->
                parts[1] \o <<"-">> \o Stars(Len(parts[2])) \o <<"-">> \o parts[3]
         [] OTHER -> original

\* re.sub(pattern, mask_match, text) from position p on: the leftmost
\* match is replaced and the search goes on behind it
RECURSIVE Sub(_, _, _)
Sub(entry, text, p) ==
    IF p > Len(text) THEN <<>>
    ELSE LET n == MatchLen(entry.pattern, text, p)
         IN IF n = 0 THEN <<text[p]>> \o Sub(entry, text, p + 1)
            ELSE mask_match(entry.info_type, SubSeq(text, p, p + n - 1))
                     \o Sub(entry, text, p + n)

\* mask_sensitive_info on a str: one re.sub per pattern, in dict order
RECURSIVE MaskFrom(_, _)
MaskFrom(text, k) ==
    IF k > Len(SENSITIVE_PATTERNS) THEN text
    ELSE MaskFrom(Sub(SENSITIVE_PATTERNS[k], text, 1), k + 1)

mask_sensitive_info(text) == MaskFrom(text, 1)

(***************************************************************************)
(* Masking as a state machine: a text of up to MaxGroups digit groups      *)
(* joined by hyphens is masked, and the returned text is masked again.     *)
(***************************************************************************)
MaxGroups == 5

\* the numbers of digits a group may have: those the patterns ask for
DigitCounts == {2, 3, 4, 5, 6, 7}

Digits(n) == [i \in 1..n |-> "d"]

\* the text of digit groups joined by hyphens
RECURSIVE JoinGroups(_)
JoinGroups(counts) ==
    IF Len(counts) = 0 THEN <<>>
    ELSE IF Len(counts) = 1 THEN Digits(counts[1])
    ELSE Digits(counts[1]) \o <<"-">> \o JoinGroups(Tail(counts))

MaskTexts == {JoinGroups(counts) : counts \in SeqsUpTo(DigitCounts, MaxGroups) \ {<<>>}}

MaskInit ==
    MaskIdle /\ CalcIdle /\ RouterIdle /\ CellIdle /\ JoinIdle /\ RestIdle

Mask ==
    /\ mask_text = <<>>
    /\ \E text \in MaskTexts :
        /\ mask_text' = text
        /\ masked_text' = <<mask_sensitive_info(text)>>
    /\ UNCHANGED <<remasked_text, calcVars, routerVars, cellVars, joinVars, restVars>>

MaskAgain ==
    /\ masked_text # <<>>
    /\ remasked_text = <<>>
    /\ remasked_text' = <<mask_sensitive_info(masked_text[1])>>
    /\ UNCHANGED <<mask_text, masked_text, calcVars, routerVars, cellVars, joinVars, restVars>>

MaskDone ==
    /\ remasked_text # <<>>
    /\ mask_text' = <<>>
    /\ masked_text' = <<>>
    /\ remasked_text' = <<>>
    /\ UNCHANGED <<calcVars, routerVars, cellVars, joinVars, restVars>>

MaskNext == Mask \/ MaskAgain \/ MaskDone

SpecMask == MaskInit /\ [][MaskNext]_vars

(***************************************************************************)
(* Claims about masking.                                                   *)
(***************************************************************************)
\* C7: masking is idempotent: masking the masked text returns it unchanged.
C7_MaskIdempotent ==
    remasked_text # <<>> => remasked_text[1] = masked_text[1]

\* a pattern of SENSITIVE_PATTERNS matches somewhere in the text
ContainsPattern(text) ==
    \E k \in DOMAIN SENSITIVE_PATTERNS, p \in DOMAIN text :
        MatchLen(SENSITIVE_PATTERNS[k].pattern, text, p) > 0

\* C8: the masked text contains no substring that matches one of the three
\* patterns with all its digits intact.
C8_NoPatternLeft ==
    masked_text # <<>> => ~ContainsPattern(masked_text[1])

(***************************************************************************)
(* Surfacing a field value: LookupEngine copies a cell into the record it  *)
(* returns, DataLoader copies it into the text of the row's document.      *)
(***************************************************************************)
\* LookupEngine._is_sensitive
is_sensitive(column_name) ==
    {"saeopja", "jumin", "deungnokbeonho", "jeonhwa", "haendeupon", "imeil"}
        \cap Words(column_name) # {}

\* LookupEngine._search_in_dataset: the value put in the record
record_value(col, value) ==
    IF is_sensitive(col) THEN mask_sensitive_info(value) ELSE value

\* DataLoader._row_to_document: the value put in the document text
document_value(col_name, value) == mask_sensitive_info(value)

MaxValueGroups == 3

\* the column names, as the codebook translates them
CellColumns ==
    {"jeonhwabeonho", "saeopjadeungnokbeonho", "damdangja yeollakcheo",
     "memo", "B-5"}

CellValues ==
    {JoinGroups(counts) : counts \in SeqsUpTo(DigitCounts, MaxValueGroups) \ {<<>>}}

\* a non-empty cell of a loaded table
CellInit ==
    /\ cell_column \in CellColumns
    /\ cell_value \in CellValues
    /\ record_text = <<>>
    /\ document_text = <<>>
    /\ CalcIdle /\ RouterIdle /\ MaskIdle /\ JoinIdle /\ RestIdle

\* a lookup returns the row of the cell
SearchInDataset ==
    /\ record_text = <<>>
    /\ record_text' = <<record_value(cell_column, cell_value)>>
    /\ UNCHANGED <<cell_column, cell_value, document_text,
                   calcVars, routerVars, maskVars, joinVars, restVars>>

\* the loader turns the row of the cell into a document
RowToDocument ==
    /\ document_text = <<>>
    /\ document_text' = <<document_value(cell_column, cell_value)>>
    /\ UNCHANGED <<cell_column, cell_value, record_text,
                   calcVars, routerVars, maskVars, joinVars, restVars>>

CellNext == SearchInDataset \/ RowToDocument

SpecCell == CellInit /\ [][CellNext]_vars

\* C9: the text the lookup record holds for a cell equals the text the
\* document holds for it, namely the masked value, whatever the column is
\* called.
C9_SameMasking ==
    (record_text # <<>> /\ document_text # <<>>) =>
        /\ record_text[1] = document_text[1]
        /\ record_text[1] = mask_sensitive_info(cell_value)

(***************************************************************************)
(* SmartAnalyst._join_dataframes.  The uploaded tables are a list of       *)
(* [filename, df] in the order of the dict; every cell is written as a     *)
(* string, "NaN" is the missing value.  Column names: "georaecheo"         *)
(* (company), "georaecheomyeong" (company name), "georaecheo kodeu"        *)
(* (company code), "hapgye" (total), "memo" (note).                        *)
(***************************************************************************)
\* pass 1, one table: code_to_name_map[code] = name for every row that
\* holds both, later rows overwriting earlier ones
RECURSIVE MapRows(_, _, _, _)
MapRows(map, rows, c, n) ==
    IF rows = <<>> THEN map
    ELSE LET row == Head(rows)
             next == IF row[c] = "NaN" \/ row[n] = "NaN" THEN map
                     ELSE (row[c] :> row[n]) @@ map
         IN MapRows(next, Tail(rows), c, n)

\* pass 1: the code -> name map over all the tables
RECURSIVE code_to_name_map(_, _)
code_to_name_map(dataframes, map) ==
    IF dataframes = <<>> THEN map
    ELSE LET df == Head(dataframes).df
             next ==
               IF HasCol(df, "georaecheo kodeu") /\ HasCol(df, "georaecheo")
               THEN MapRows(map, df.rows, ColPos(df, "georaecheo kodeu"),
                            ColPos(df, "georaecheo"))
               ELSE IF HasCol(df, "georaecheo kodeu") /\ HasCol(df, "georaecheomyeong")
               THEN MapRows(map, df.rows, ColPos(df, "georaecheo kodeu"),
                            ColPos(df, "georaecheomyeong"))
               ELSE map
         IN code_to_name_map(Tail(dataframes), next)

\* a table qualifies for the join when it has one of the company columns
Qualifies(df) ==
    \/ HasCol(df, "georaecheo")
    \/ HasCol(df, "georaecheomyeong")
    \/ HasCol(df, "georaecheo kodeu")

\* df[name] = values: a new last column
WithColumn(df, name, dtype, values) ==
    DF(Append(df.columns, name), Append(df.dtypes, dtype),
       [i \in DOMAIN df.rows |-> Append(df.rows[i], values[i])])

\* pass 2: the company column, taken from the company name or looked up
\* from the company code (the code itself when the map does not hold it)
UnifyCompany(df, map) ==
    IF HasCol(df, "georaecheo") THEN df
    ELSE IF HasCol(df, "georaecheomyeong")
    THEN LET c == ColPos(df, "georaecheomyeong")
         IN WithColumn(df, "georaecheo", df.dtypes[c],
                       [i \in DOMAIN df.rows |-> df.rows[i][c]])
    ELSE LET c == ColPos(df, "georaecheo kodeu")
         IN WithColumn(df, "georaecheo", "object",
                       [i \in DOMAIN df.rows |->
                           IF df.rows[i][c] = "NaN" THEN "NaN"
                           ELSE IF df.rows[i][c] \in DOMAIN map
                                THEN map[df.rows[i][c]]
                                ELSE df.rows[i][c]])

\* filename.replace('.csv', '') and the other replacements
file_prefix(filename) ==
    CASE filename = "clients.csv" -> "clients"
      [] filename = "sales.csv" -> "sales"
      [] filename = "visits.csv" -> "visits"

important_cols ==
    {"georaecheo", "georaecheomyeong", "georaecheo kodeu", "maechuril",
     "georaeil", "hapgye", "chong panmaegeumaek", "gonggeupgaaek",
     "majinyul", "jepummyeong", "jepumgun"}

\* f"{file_prefix}_{col}"
PrefixedName(prefix, col) ==
    CASE prefix = "clients" /\ col = "memo" -> "clients_memo"
      [] prefix = "sales" /\ col = "memo" -> "sales_memo"
      [] prefix = "visits" /\ col = "memo" -> "visits_memo"

\* pass 2: every column outside important_cols gets the file prefix
RenameColumns(df, filename) ==
    [df EXCEPT !.columns =
        [i \in DOMAIN df.columns |->
            IF df.columns[i] \in important_cols THEN df.columns[i]
            ELSE PrefixedName(file_prefix(filename), df.columns[i])]]

\* pass 2: joinable_dfs
RECURSIVE joinable_dfs(_, _)
joinable_dfs(dataframes, map) ==
    IF dataframes = <<>> THEN <<>>
    ELSE LET file == Head(dataframes)
         IN (IF Qualifies(file.df)
             THEN <<[filename |-> file.filename,
                     df |-> RenameColumns(UnifyCompany(file.df, map),
                                          file.filename)]>>
             ELSE <<>>)
            \o joinable_dfs(Tail(dataframes), map)

\* the company values of the model in lexicographic order
JoinKeyOrder == <<"7", "A", "B", "c1">>

KeysOf(df) == {df.rows[i][ColPos(df, "georaecheo")] : i \in DOMAIN df.rows}

\* seeded fault: an inner join keeps only the keys of both sides
MergeKeysInner(left, right) == KeysOf(left) \cap KeysOf(right)

\* how='outer': the union of the keys of both sides
MergeKeys(left, right) == KeysOf(left) \cup KeysOf(right)

\* col + suffix for a column of the right side that the left side has too
Suffixed(col, i) ==
    CASE col = "hapgye" /\ i = 1 -> "hapgye_1"
      [] col = "hapgye" /\ i = 2 -> "hapgye_2"
      [] col = "georaecheomyeong" /\ i = 1 -> "georaecheomyeong_1"
      [] col = "georaecheomyeong" /\ i = 2 -> "georaecheomyeong_2"
      [] col = "georaecheo kodeu" /\ i = 1 -> "georaecheo kodeu_1"
      [] col = "georaecheo kodeu" /\ i = 2 -> "georaecheo kodeu_2"

\* a sequence without its element at position k
Without(row, k) == SubSeq(row, 1, k - 1) \o SubSeq(row, k + 1, Len(row))

Missing(n) == [i \in 1..n |-> "NaN"]

\* the rows of the merged table for one company
MergedRowsFor(left, right, key) ==
    LET lk == ColPos(left, "georaecheo")
        rk == ColPos(right, "georaecheo")
        ls == SelectSeq(left.rows, LAMBDA row : row[lk] = key)
        rs == SelectSeq(right.rows, LAMBDA row : row[rk] = key)
    IN IF ls = <<>>
       THEN [j \in DOMAIN rs |->
                [Missing(Len(left.columns)) EXCEPT ![lk] = key] \o Without(rs[j], rk)]
       ELSE IF rs = <<>>
       THEN [j \in DOMAIN ls |-> ls[j] \o Missing(Len(right.columns) - 1)]
       ELSE [j \in 1..(Len(ls) * Len(rs)) |->
                ls[((j - 1) \div Len(rs)) + 1]
                    \o Without(rs[((j - 1) % Len(rs)) + 1], rk)]

RECURSIVE MergedRows(_, _, _)
MergedRows(left, right, keys) ==
    IF keys = <<>> THEN <<>>
    ELSE MergedRowsFor(left, right, Head(keys)) \o MergedRows(left, right, Tail(keys))

\* pd.merge(left, right, on=company, how='outer', suffixes=('', f'_{i}')).
\* pandas raises ValueError when one key column holds strings and the other
\* numbers; otherwise the keys come out in lexicographic order.
merge(left, right, i) ==
    LET lk == ColPos(left, "georaecheo")
        rk == ColPos(right, "georaecheo")
        keys == SelectSeq(JoinKeyOrder, LAMBDA key : key \in MergeKeys(left, right))
        rcols == Without(right.columns, rk)
    IN IF /\ left.dtypes[lk] # right.dtypes[rk]
          /\ left.rows # <<>>
          /\ right.rows # <<>>
       THEN [raised |-> TRUE, df |-> NoneDF]
       ELSE [raised |-> FALSE,
             df |-> DF(left.columns \o
                           [j \in DOMAIN rcols |->
                               IF rcols[j] \in Range(left.columns)
                               THEN Suffixed(rcols[j], i) ELSE rcols[j]],
                       left.dtypes \o Without(right.dtypes, rk),
                       MergedRows(left, right, keys))]

\* pass 3: the joinable tables from position i + 1 on are merged into
\* result_df one after the other
RECURSIVE FoldJoin(_, _, _)
FoldJoin(result_df, joinable, i) ==
    IF i >= Len(joinable) THEN [raised |-> FALSE, df |-> result_df]
    ELSE LET merged == merge(result_df, joinable[i + 1].df, i)
         IN IF merged.raised THEN merged
            ELSE FoldJoin(merged.df, joinable, i + 1)

\* SmartAnalyst._join_dataframes: the table, or None with what was logged
join_dataframes_of(dataframes) ==
    LET map == code_to_name_map(dataframes, <<>>)
        joinable == joinable_dfs(dataframes, map)
    IN IF Len(joinable) < 2 THEN [df |-> NoneDF, log |-> "too_few"]
       ELSE LET folded == FoldJoin(joinable[1].df, joinable, 1)
            IN IF folded.raised THEN [df |-> NoneDF, log |-> "join_failed"]
               ELSE [df |-> folded.df, log |-> "joined"]

(***************************************************************************)
(* The join as a state machine: three files are uploaded, each holding a   *)
(* table of one to MaxJoinRows rows, and _join_dataframes is called.       *)
(***************************************************************************)
MaxJoinRows == 2

TablesOf(columns, dtypes, rowset) ==
    {DF(columns, dtypes, rows) : rows \in SeqsUpTo(rowset, MaxJoinRows) \ {<<>>}}

\* the tables a file may hold: with a company column of names or of
\* numbers, with a company name column, with a company code only, with a
\* code and a company or company name, and without any company column
JoinTables ==
    TablesOf(<<"georaecheo", "hapgye">>, <<"object", "number">>,
             {<<"A", "10">>, <<"B", "10">>})
    \cup TablesOf(<<"georaecheo", "hapgye">>, <<"number", "number">>,
                  {<<"7", "10">>})
    \cup TablesOf(<<"georaecheomyeong", "memo">>, <<"object", "object">>,
                  {<<"A", "m">>})
    \cup TablesOf(<<"georaecheo kodeu", "hapgye">>, <<"object", "number">>,
                  {<<"c1", "10">>})
    \cup TablesOf(<<"georaecheo kodeu", "georaecheo">>, <<"object", "object">>,
                  {<<"c1", "A">>, <<"c1", "B">>})
    \cup TablesOf(<<"georaecheo kodeu", "georaecheomyeong">>, <<"object", "object">>,
                  {<<"c1", "B">>})
    \cup TablesOf(<<"memo">>, <<"object">>, {<<"m">>})

JoinInit ==
    /\ join_dataframes \in
           {<<[filename |-> "clients.csv", df |-> t1],
              [filename |-> "sales.csv", df |-> t2],
              [filename |-> "visits.csv", df |-> t3]>> :
               t1 \in JoinTables, t2 \in JoinTables, t3 \in JoinTables}
    /\ join_result = NotJoined
    /\ CalcIdle /\ RouterIdle /\ MaskIdle /\ CellIdle /\ RestIdle

JoinDataframes ==
    /\ join_result = NotJoined
    /\ join_result' = join_dataframes_of(join_dataframes)
    /\ UNCHANGED <<join_dataframes, calcVars, routerVars, maskVars, cellVars, restVars>>

JoinNext == JoinDataframes

SpecJoin == JoinInit /\ [][JoinNext]_vars

(***************************************************************************)
(* Claims about the join.                                                  *)
(***************************************************************************)
Joined == join_result # NotJoined

\* the uploaded tables that qualify for the join
QualifyingInputs ==
    {i \in DOMAIN join_dataframes : Qualifies(join_dataframes[i].df)}

\* the company key values of an uploaded table: the values of its company
\* column, else of its company name column, else of its company code column
CompanyValues(df) ==
    LET c == IF HasCol(df, "georaecheo") THEN ColPos(df, "georaecheo")
             ELSE IF HasCol(df, "georaecheomyeong") THEN ColPos(df, "georaecheomyeong")
             ELSE ColPos(df, "georaecheo kodeu")
    IN {df.rows[i][c] : i \in DOMAIN df.rows}

\* the values that occur in a table
CellsOf(df) == UNION {Range(df.rows[i]) : i \in DOMAIN df.rows}

\* the join returned a table that lost no row and no company
NothingLost ==
    /\ join_result.df.present
    /\ \A i \in QualifyingInputs :
           /\ Len(join_result.df.rows) >= Len(join_dataframes[i].df.rows)
           /\ CompanyValues(join_dataframes[i].df) \subseteq CellsOf(join_result.df)

\* the kinds of values (text or numbers) of the company columns the
\* qualifying tables are joined on
CompanyKinds ==
    {LET df == join_dataframes[i].df
     IN IF HasCol(df, "georaecheo") THEN df.dtypes[ColPos(df, "georaecheo")]
        ELSE IF HasCol(df, "georaecheomyeong")
             THEN df.dtypes[ColPos(df, "georaecheomyeong")]
        ELSE "object" : i \in QualifyingInputs}

\* C10 as stated: when at least two uploaded tables qualify, the join
\* returns a table with at least as many rows as every qualifying input
\* and with every company key value of every qualifying input.
C10_JoinKeepsAll ==
    (Joined /\ Cardinality(QualifyingInputs) >= 2) => NothingLost

\* C10 amended: when at least two uploaded tables qualify and their company
\* columns hold values of one kind (all text or all numbers), the join
\* returns a table with at least as many rows as every qualifying input
\* and with every company key value of every qualifying input; when the
\* kinds differ the merge raises and the join returns None.
C10_JoinKeepsAllSameKind ==
    (Joined /\ Cardinality(QualifyingInputs) >= 2) =>
        IF Cardinality(CompanyKinds) = 1 THEN NothingLost
        ELSE ~join_result.df.present /\ join_result.log = "join_failed"

\* three tables were joined, one of them through its company code, and
\* the result has more rows than each of them
C10_Witness ==
    /\ Joined
    /\ Cardinality(QualifyingInputs) = 3
    /\ \E i \in QualifyingInputs :
           join_dataframes[i].df.columns = <<"georaecheo kodeu", "hapgye">>
    /\ join_result.log = "joined"
    /\ \A i \in QualifyingInputs :
           Len(join_result.df.rows) > Len(join_dataframes[i].df.rows)

(***************************************************************************)
(* SmartAnalyst._build_data_context and what it calls.  The context is a   *)
(* list of parts [part, file, n]: the kind of the line or block, the file  *)
(* it is about and the number it shows.  A question is a list of words:    *)
(* "A" and "B" stand for company names, "sangwi" (top), "hapgye" (total),  *)
(* "jeonche" (all), "georaecheo" (company), "memo", "Top", "n1".           *)
(***************************************************************************)
Part(part, file, n) == [part |-> part, file |-> file, n |-> n]

\* SmartAnalyst._extract_keywords: the lower-cased words that are no
\* stopwords and are longer than one character
extract_keywords(query) ==
    {Lower(query[i]) : i \in {j \in DOMAIN query :
        query[j] \notin NumberTokens \cup {"eul", "reul", "bunseok", "seolmyeong",
                                           "i", "allyeojwo"}}}

\* the keywords of the questions that are substrings of str(col).lower()
ColumnKeywords(col) ==
    CASE col \in {"georaecheo", "georaecheomyeong", "georaecheo kodeu",
                  "georaecheomyeong_1", "georaecheomyeong_2",
                  "georaecheo kodeu_1", "georaecheo kodeu_2"} -> {"georaecheo"}
      [] col \in {"hapgye", "hapgye_1", "hapgye_2"} -> {"hapgye"}
      [] col \in {"memo", "clients_memo", "sales_memo", "visits_memo"} -> {"memo"}
      [] OTHER -> {}

\* the columns whose name holds one of the keywords
matching_cols(df, keywords) ==
    SelectSeq(df.columns, LAMBDA col : ColumnKeywords(col) \cap keywords # {})

\* SmartAnalyst._extract_company_name: the first company of the table, in
\* order of appearance, whose name occurs in the question; <<>> for None
extract_company_name(query, df) ==
    IF ~HasCol(df, "georaecheo") /\ ~HasCol(df, "georaecheomyeong") THEN <<>>
    ELSE LET c == IF HasCol(df, "georaecheo") THEN ColPos(df, "georaecheo")
                  ELSE ColPos(df, "georaecheomyeong")
             hits == {i \in DOMAIN df.rows :
                         /\ df.rows[i][c] # "NaN"
                         /\ df.rows[i][c] \in QueryWords(query)}
         IN IF hits = {} THEN <<>>
            ELSE <<df.rows[CHOOSE i \in hits : \A j \in hits : i <= j][c]>>

\* the numeric columns whose name holds a word for an amount
amount_cols(df) ==
    {i \in DOMAIN df.columns :
        /\ df.dtypes[i] = "number"
        /\ ColumnKeywords(df.columns[i]) = {"hapgye"}}

\* the numeric columns whose name holds no word for a number or a code
meaningful_cols(df) ==
    {i \in DOMAIN df.columns :
        /\ df.dtypes[i] = "number"
        /\ df.columns[i] \notin {"georaecheo kodeu", "georaecheo kodeu_1",
                                 "georaecheo kodeu_2"}}

\* SmartAnalyst._find_relevant_data: which block it returns for the table
find_relevant_data(query, df, filename) ==
    LET words == QueryWords(query)
        cols == matching_cols(df, extract_keywords(query))
        sample == IF cols # <<>> THEN Part("matching_cols", filename, Len(cols))
                  ELSE Part("sample", filename, MinOf(Len(df.rows), 20))
    IN IF extract_company_name(query, df) # <<>>
       THEN Part("company", filename, 0)
       ELSE IF {"sangwi", "top", "mani", "nopeun", "sunwi"} \cap words # {}
       THEN IF HasCol(df, "georaecheo") /\ amount_cols(df) # {}
            THEN Part("top_n", filename, 0) ELSE sample
       ELSE IF {"hapgye", "chong", "pyeonggyun", "chonghap"} \cap words # {}
       THEN IF meaningful_cols(df) # {}
            THEN Part("aggregates", filename, 0) ELSE sample
       ELSE IF /\ {"jeonche", "modeun", "riseuteu", "mongnok"} \cap words # {}
               /\ {"hoesa", "georaecheo", "eopche"} \cap words # {}
               /\ HasCol(df, "georaecheo") \/ HasCol(df, "georaecheomyeong")
       THEN Part("company_list", filename, 0)
       ELSE sample

\* the parts of the context about one uploaded table
FileParts(query, file) ==
    <<Part("file", file.filename, 0),
      Part("rows", file.filename, Len(file.df.rows)),
      Part("columns", file.filename, MinOf(Len(file.df.columns), 10)),
      find_relevant_data(query, file.df, file.filename)>>

RECURSIVE PerFileParts(_, _)
PerFileParts(query, dataframes) ==
    IF dataframes = <<>> THEN <<>>
    ELSE FileParts(query, Head(dataframes)) \o PerFileParts(query, Tail(dataframes))

\* joined_df[company].nunique(): the number of different companies
nunique(df) == Cardinality(KeysOf(df) \ {"NaN"})

\* the parts of the context about the joined table
JoinedParts(query, joined_df, dataframes) ==
    <<Part("joined", "tonghap deiteo", Len(joined_df.rows)),
      Part("joined_columns", "tonghap deiteo", Len(joined_df.columns)),
      Part("joined_companies", "tonghap deiteo", nunique(joined_df)),
      find_relevant_data(query, joined_df, "tonghap deiteo"),
      Part("files_header", "", 0)>>
    \o [i \in DOMAIN dataframes |->
           Part("file_size", dataframes[i].filename, Len(dataframes[i].df.rows))]

\* seeded fault: nothing is written about the tables when the join failed
TablePartsSkipFailed(query, dataframes, joined) ==
    IF Len(dataframes) > 1
    THEN IF joined.df.present THEN JoinedParts(query, joined.df, dataframes)
         ELSE <<>>
    ELSE PerFileParts(query, dataframes)

\* lines 85-124: the joined table when there are several files and the
\* join returned one, else every file on its own
TableParts(query, dataframes, joined) ==
    IF Len(dataframes) > 1 /\ joined.df.present
    THEN JoinedParts(query, joined.df, dataframes)
    ELSE PerFileParts(query, dataframes)

\* SmartAnalyst._build_data_context: the context, and what the call of
\* _join_dataframes returned (NotJoined when it was not called)
build_data_context(query, include_images, dataframes, images) ==
    LET joined == IF Len(dataframes) > 1 THEN join_dataframes_of(dataframes)
                  ELSE NotJoined
        tables == IF dataframes = <<>> THEN <<>>
                  ELSE <<Part("tables", "", Len(dataframes))>>
                       \o TableParts(query, dataframes, joined)
        pictures == IF include_images /\ images # <<>>
                    THEN <<Part("images", "", Len(images))>>
                         \o [i \in DOMAIN images |-> Part("image", images[i], 0)]
                    ELSE <<>>
    IN [context |-> <<Part("header", "", 0)>> \o tables \o pictures,
        joined |-> joined]

(***************************************************************************)
(* SmartAnalyst._generate_analysis.  The hosted model is outside the       *)
(* program: each call of generate_content either returns a text or raises, *)
(* and outcomes[k] says which for the k-th call.  A call is written as     *)
(* [kind, outcome, pairs], pairs being the earlier questions and answers   *)
(* its prompt quotes; an answer is [kind, data_context]: the text of the   *)
(* model, or the message that quotes the error and the data context.       *)
(***************************************************************************)
LlmText == [kind |-> "llm_text", data_context |-> <<>>]

Fallback(data_context) == [kind |-> "fallback", data_context |-> data_context]

\* ctx['response'][:200]: of an answer (the one text of gemini_response)
\* the kind and the head of what it quotes; the rest is cut
First200(response) ==
    [i \in DOMAIN response |->
        [kind |-> response[i].kind,
         data_context |-> HeadRows(response[i].data_context, 1)]]

\* conversation_context[-3:]
LastThree(context) ==
    SubSeq(context, Len(context) - MinOf(3, Len(context)) + 1, Len(context))

\* lines 530-535: what the prompt quotes of the earlier conversation
PromptPairs(context) ==
    LET recent == LastThree(context)
    IN [i \in DOMAIN recent |->
           [query |-> recent[i].query, response |-> First200(recent[i].response)]]

\* the text-only branch: lines 529-579
generate_text_analysis(data_context, context, outcome) ==
    [calls |-> <<[kind |-> "text", outcome |-> outcome,
                  pairs |-> PromptPairs(context)]>>,
     response |-> IF outcome = "returns" THEN LlmText ELSE Fallback(data_context)]

\* SmartAnalyst._generate_multimodal_analysis: its prompt quotes nothing of
\* the conversation; when the call with the images raises, the text-only
\* analysis is called without a conversation context
generate_multimodal_analysis(data_context, outcomes) ==
    LET first == <<[kind |-> "multimodal", outcome |-> outcomes[1], pairs |-> <<>>]>>
    IN IF outcomes[1] = "returns" THEN [calls |-> first, response |-> LlmText]
       ELSE LET second == generate_text_analysis(data_context, <<>>, outcomes[2])
            IN [calls |-> first \o second.calls, response |-> second.response]

generate_analysis(data_context, include_images, images, context, outcomes) ==
    IF include_images /\ images # <<>>
    THEN generate_multimodal_analysis(data_context, outcomes)
    ELSE generate_text_analysis(data_context, context, outcomes[1])

\* SmartAnalyst._extract_results: for a ranking question, the file of the
\* first table with a numeric column and the size of its nlargest(10)
extract_results(query, dataframes) ==
    LET numeric == {i \in DOMAIN dataframes :
                       "number" \in Range(dataframes[i].df.dtypes)}
    IN IF {"sangwi", "Top", "sunwi"} \cap QueryWords(query) = {} \/ numeric = {}
       THEN <<>>
       ELSE LET i == CHOOSE i \in numeric : \A j \in numeric : i <= j
            IN <<Part("nlargest", dataframes[i].filename,
                      MinOf(Len(dataframes[i].df.rows), 10))>>

\* SmartAnalyst.analyze
analyze(query, include_images, dataframes, images, context, outcomes) ==
    LET built == build_data_context(query, include_images, dataframes, images)
        generated == generate_analysis(built.context, include_images, images,
                                       context, outcomes)
    IN [joined |-> built.joined,
        calls |-> generated.calls,
        result |-> [raised |-> FALSE,
                    data_context |-> built.context,
                    gemini_response |-> <<generated.response>>,
                    tables |-> extract_results(query, dataframes)]]

(***************************************************************************)
(* The analyst as a state machine: up to three tables of one row and up    *)
(* to one image are uploaded, and analyze is called with a question.       *)
(***************************************************************************)
UploadTables == {t \in JoinTables : Len(t.rows) = 1}

FileNames == <<"clients.csv", "sales.csv", "visits.csv">>

UploadedFiles ==
    UNION {{[i \in 1..k |-> [filename |-> FileNames[i], df |-> tables[i]]] :
               tables \in [1..k -> UploadTables]} : k \in 0..Len(FileNames)}

AnalystQueries ==
    {<<"hello">>, <<"A">>, <<"B", "hapgye">>, <<"sangwi", "n1">>, <<"Top", "n1">>,
     <<"hapgye">>, <<"jeonche", "georaecheo">>, <<"memo">>}

LlmOutcomes == [1..2 -> {"returns", "raises"}]

AnalystInit ==
    /\ join_dataframes \in UploadedFiles
    /\ join_result = NotJoined
    /\ uploaded_images \in {<<>>, <<"chart.png">>}
    /\ analyze_request = <<>>
    /\ llm_calls = <<>>
    /\ analysis_result = NoAnalysis
    /\ CalcIdle /\ RouterIdle /\ MaskIdle /\ CellIdle /\ LookupIdle /\ LaterIdle

Analyze ==
    /\ analyze_request = <<>>
    /\ process_request = <<>>
    /\ rag_request = <<>>
    /\ \E query \in AnalystQueries, include_images \in BOOLEAN,
          outcomes \in LlmOutcomes :
        \E done \in {analyze(query, include_images, join_dataframes,
                             uploaded_images, <<>>, outcomes)} :
            /\ analyze_request' = <<[query |-> query,
                                      include_images |-> include_images]>>
            /\ join_result' = done.joined
            /\ llm_calls' = done.calls
            /\ analysis_result' = done.result
    /\ UNCHANGED <<join_dataframes, uploaded_images,
                   calcVars, routerVars, maskVars, cellVars, lookupVars,
                   laterVars>>

\* the caller shows the result and waits for the next question
NextQuestion ==
    /\ analyze_request # <<>>
    /\ analyze_request' = <<>>
    /\ join_result' = NotJoined
    /\ llm_calls' = <<>>
    /\ analysis_result' = NoAnalysis
    /\ UNCHANGED <<join_dataframes, uploaded_images,
                   calcVars, routerVars, maskVars, cellVars, lookupVars,
                   laterVars>>

AnalystNext == Analyze \/ NextQuestion

SpecAnalyst == AnalystInit /\ [][AnalystNext]_vars

(***************************************************************************)
(* Claims about the analyst.                                               *)
(***************************************************************************)
Analyzed == analyze_request # <<>>

\* the context has the block of its own of every uploaded table
PerTableContext ==
    \A i \in DOMAIN join_dataframes :
        LET file == join_dataframes[i]
        IN /\ Part("file", file.filename, 0) \in Range(analysis_result.data_context)
           /\ Part("rows", file.filename, Len(file.df.rows))
                  \in Range(analysis_result.data_context)

\* C11: when a step of _join_dataframes raised, the join returned None,
\* the context was built from each uploaded table on its own (and holds
\* nothing about a joined table), and analyze returned without raising.
C11_JoinFailureFallsBack ==
    (Analyzed /\ join_result.log = "join_failed") =>
        /\ ~join_result.df.present
        /\ ~analysis_result.raised
        /\ PerTableContext
        /\ \A i \in DOMAIN analysis_result.data_context :
               analysis_result.data_context[i].part
                   \notin {"joined", "joined_columns", "joined_companies"}

\* three tables were uploaded, the merge of two of them raised, and the
\* context was built
C11_Witness ==
    /\ Analyzed
    /\ Len(join_dataframes) = 3
    /\ join_result.log = "join_failed"
    /\ Len(analysis_result.data_context) > 2

(***************************************************************************)
(* LookupEngine.  Company names: "hanguk", "hanhwahwahak" (Hangul only)    *)
(* and "LGhwahak" (Latin letters, then the Hangul word "hwahak", which     *)
(* "hanhwahwahak" ends with too).  "choegeun" (recent), "jinan" (last),    *)
(* "bangmun" (visit), "maechul" (sales).                                   *)
(***************************************************************************)
\* LookupEngine._select_datasets
select_lookup_datasets(query, dataset_filter) ==
    IF dataset_filter # "jeonche" THEN <<dataset_filter>>
    ELSE LET words == QueryWords(query)
             d1 == IF {"georaecheo", "gogaek", "eopche", "sangho", "saeopja"}
                       \cap words # {}
                   THEN <<"georaecheo">> ELSE <<>>
             d2 == IF {"maechul", "panmae", "jumun", "jepum", "georae",
                       "naeyeok"} \cap words # {}
                   THEN <<"maechul">> ELSE <<>>
             d3 == IF {"yeongeopilji", "ilji", "bangmun", "memo",
                       "hwaldong"} \cap words # {}
                   THEN <<"ilji">> ELSE <<>>
             datasets == d1 \o d2 \o d3
         IN IF datasets = <<>> THEN <<"georaecheo", "maechul", "ilji">>
            ELSE datasets

\* the first element of the sequence s that is in the set S, as <<x>>
FirstIn(s, S) ==
    LET hits == {i \in DOMAIN s : s[i] \in S}
    IN IF hits = {} THEN <<>>
       ELSE <<s[CHOOSE i \in hits : \A j \in hits : i <= j]>>

\* the run of three or more capitals and digits of a word, as <<run>>
CodeRun(t) ==
    CASE t = "y2024" -> <<"2024">>
      [] t = "C001" -> <<"C001">>
      [] OTHER -> <<>>

\* LookupEngine._extract_search_conditions; <<>> is a missing key
extract_search_conditions(query) ==
    LET question_words == {"mueot", "eodi", "eonje", "nugu", "wae", "eotteoke",
                           "hapgye", "pyeonggyun", "allyeo", "boyeo",
                           "choegeun", "bangmun"}
        named == {i \in DOMAIN query : HangulRuns(query[i]) \ question_words # {}}
        coded == {i \in DOMAIN query : CodeRun(query[i]) # <<>>}
        year == FirstIn(query, YearTokens)
        month == FirstIn(query, MonthTokens)
    IN [name |-> IF named = {} THEN <<>>
                 ELSE LET i == CHOOSE i \in named : \A j \in named : i <= j
                      IN <<CHOOSE run \in HangulRuns(query[i]) : TRUE>>,
        year |-> IF year = <<>> THEN <<>> ELSE <<TokenYear(year[1])>>,
        month |-> IF year = <<>> \/ month = <<>> THEN <<>>
                  ELSE <<TokenMonth(month[1])>>,
        recent |-> AnyIn({"choegeun"}, query),
        past |-> ~AnyIn({"choegeun"}, query) /\ AnyIn({"jinan"}, query),
        code |-> IF coded = {} THEN <<>>
                 ELSE CodeRun(query[CHOOSE i \in coded : \A j \in coded : i <= j])]

\* the texts str.contains finds in astype(str) of a cell
SubstringsOf(value) ==
    CASE value = "NaN" -> {}
      [] value = "LGhwahak" -> {"LGhwahak", "hwahak"}
      [] value = "hanhwahwahak" -> {"hanhwahwahak", "hwahak"}
      [] value = "C2024" -> {"C2024", "2024"}
      [] OTHER -> {value}

\* the rows of a frame with their index labels
IndexedRows(df) == [i \in DOMAIN df.rows |-> [idx |-> i - 1, row |-> df.rows[i]]]

\* lines 134-147: the rows whose B-1 or C-2 cell contains the name
NameFiltered(df, rows, conditions) ==
    LET name_cols == {c \in {"B-1", "C-2"} : HasCol(df, c)}
    IN IF conditions.name = <<>> \/ name_cols = {} THEN rows
       ELSE SelectSeq(rows, LAMBDA r :
                \E c \in name_cols :
                    conditions.name[1] \in SubstringsOf(r.row[ColPos(df, c)]))

\* lines 150-156: the rows whose B-2 cell contains the code
CodeFiltered(df, rows, conditions) ==
    IF conditions.code = <<>> \/ ~HasCol(df, "B-2") THEN rows
    ELSE SelectSeq(rows, LAMBDA r :
             conditions.code[1] \in SubstringsOf(r.row[ColPos(df, "B-2")]))

\* seeded fault: the rows of the year are added to the rows, not selected
YearFilteredInverted(df, rows, conditions) ==
    IF conditions.year = <<>> \/ ~HasCol(df, "A-2") THEN rows
    ELSE rows \o SelectSeq(rows, LAMBDA r :
                     ContainsYear(r.row[ColPos(df, "A-2")], conditions.year[1]))

\* lines 159-164: the rows whose A-2 cell contains the year
YearFiltered(df, rows, conditions) ==
    IF conditions.year = <<>> \/ ~HasCol(df, "A-2") THEN rows
    ELSE SelectSeq(rows, LAMBDA r :
             ContainsYear(r.row[ColPos(df, "A-2")], conditions.year[1]))

\* lines 166-171: the rows whose A-2 cell contains "-" and the month
MonthFiltered(df, rows, conditions) ==
    IF conditions.month = <<>> \/ ~HasCol(df, "A-2") THEN rows
    ELSE SelectSeq(rows, LAMBDA r :
             ContainsDashMonth(r.row[ColPos(df, "A-2")], conditions.month[1]))

\* the place of a date text in ascending order; a missing date sorts last
\* in either direction
DateRank(date) ==
    CASE date = "2023-01-15" -> 1
      [] date = "2024-01-05" -> 2
      [] date = "2024-11-01" -> 3
      [] OTHER -> 0

\* lines 174-175: the orders sort_values('A-2', ascending=False) may give
RecentSorted(df, rows, conditions) ==
    IF ~conditions.recent \/ ~HasCol(df, "A-2") THEN {rows}
    ELSE LET a2 == ColPos(df, "A-2")
         IN {[i \in DOMAIN rows |-> rows[p[i]]] :
                p \in {q \in Permutations(DOMAIN rows) :
                         \A i, j \in DOMAIN rows :
                            i < j => DateRank(rows[q[i]].row[a2])
                                        >= DateRank(rows[q[j]].row[a2])}}

\* str(value) of a cell: the digits of a number, a text as it is
StrOf(dtype, value) ==
    IF dtype # "number" THEN value
    ELSE CASE value = 50 -> "50" [] value = 100 -> "100" [] value = 300 -> "300"

\* lines 184-195: the record of a row, without its missing cells (the
\* numbers of the tables are never missing)
RecordOf(columns, dtypes, dataset_name, r) ==
    LET filled == SelectSeq(IndexSeq(Len(columns)),
                            LAMBDA c : dtypes[c] = "number" \/ r.row[c] # "NaN")
    IN [dataset |-> dataset_name,
        row_id |-> r.idx,
        fields |-> [k \in DOMAIN filled |->
                       <<columns[filled[k]],
                         record_value(columns[filled[k]],
                                      StrOf(dtypes[filled[k]], r.row[filled[k]]))>>]]

\* LookupEngine._search_in_dataset: the lists of records it may return
search_in_dataset(frames, dataset_name, conditions) ==
    IF dataset_name \notin DOMAIN frames \/ ~frames[dataset_name].present
    THEN {<<>>}
    ELSE LET df == frames[dataset_name]
             filtered ==
                 MonthFiltered(df,
                     YearFiltered(df,
                         CodeFiltered(df,
                             NameFiltered(df, IndexedRows(df), conditions),
                             conditions),
                         conditions),
                     conditions)
             columns == translate_columns(df, dataset_name).columns
         IN {LET head == HeadRows(sorted, 10)
             IN [k \in DOMAIN head |->
                    RecordOf(columns, df.dtypes, dataset_name, head[k])] :
                sorted \in RecentSorted(df, filtered, conditions)}

\* lines 53-56: the records of the target datasets, one after the other
RECURSIVE FoundRecords(_, _, _)
FoundRecords(frames, target_datasets, conditions) ==
    IF target_datasets = <<>> THEN {<<>>}
    ELSE {first \o rest :
            first \in search_in_dataset(frames, Head(target_datasets), conditions),
            rest \in FoundRecords(frames, Tail(target_datasets), conditions)}

\* LookupEngine._generate_lookup_answer, by the kind of text it returns
generate_lookup_answer(found_records) ==
    IF found_records = <<>> THEN "no_result" ELSE "records"

\* LookupEngine.lookup: the results the call may return
lookup(frames, query, dataset_filter) ==
    LET target_datasets == select_lookup_datasets(query, dataset_filter)
        search_conditions == extract_search_conditions(query)
    IN {[raised |-> FALSE,
         answer |-> generate_lookup_answer(found_records),
         found_records |-> found_records,
         search_conditions |-> search_conditions] :
        found_records \in FoundRecords(frames, target_datasets, search_conditions)}

(***************************************************************************)
(* A session of the two engines over one DataLoader: each of the three     *)
(* files either did not load or holds rows of its file, and calculate and  *)
(* lookup are called any number of times.  Columns: B-1 company name, B-2  *)
(* company code, A-2 date, D-1 amount, E-1 note.                           *)
(***************************************************************************)
MaxSessionRows == 4

SalesFile ==
    << <<"hanguk", "2024-01-05", 100>>, <<"LGhwahak", "2023-01-15", 100>>,
       <<"hanhwahwahak", "2024-11-01", 300>>, <<"hanguk", "NaN", 50>>,
       <<"LGhwahak", "2024-01-05", 50>> >>

ClientsFile ==
    << <<"hanguk", "C001">>, <<"LGhwahak", "C2024">>, <<"hanhwahwahak", "C003">> >>

JournalFile ==
    << <<"hanguk", "2024-11-01", "m">>, <<"LGhwahak", "2024-01-05", "NaN">>,
       <<"hanguk", "2023-01-15", "m">> >>

\* n rows of a file from row number start + 1 on, going round
RowsFrom(file, start, n) == [i \in 1..n |-> file[((start + i - 1) % Len(file)) + 1]]

SessionSales ==
    {DF(<<"B-1", "A-2", "D-1">>, <<"object", "object", "number">>,
        RowsFrom(SalesFile, start, n)) :
        start \in 0..(Len(SalesFile) - 1), n \in 1..MaxSessionRows}

SessionClients ==
    {DF(<<"B-1", "B-2">>, <<"object", "object">>,
        RowsFrom(ClientsFile, 0, MaxSessionRows))}

SessionJournal ==
    {DF(<<"B-1", "A-2", "E-1">>, <<"object", "object", "object">>,
        RowsFrom(JournalFile, 0, MaxSessionRows))}

\* DataLoader.load_all_data: a file that cannot be read is left out
LoadedFrames ==
    {sales @@ clients @@ journal :
        sales \in {NoFrames} \cup {("maechul" :> t) : t \in SessionSales},
        clients \in {NoFrames} \cup {("georaecheo" :> t) : t \in SessionClients},
        journal \in {NoFrames} \cup {("ilji" :> t) : t \in SessionJournal}}

SessionCalcQueries ==
    {<<"hapgye">>, <<"y2024", "hapgye">>, <<"y2024", "m1", "georaecheobyeol">>,
     <<"wolbyeol">>, <<"y2024", "wolbyeol">>, <<"georaecheobyeol", "sangwi", "n1">>,
     <<"hawi", "n1">>, <<"jepumbyeol">>, <<"y2024", "m1", "bangmun", "georaecheobyeol">>}

SessionLookupQueries ==
    {<<"hello">>, <<"choegeun", "hanguk">>, <<"choegeun", "LGhwahak">>,
     <<"hanhwahwahak">>, <<"y2024">>, <<"y2024", "m1">>, <<"choegeun">>,
     <<"choegeun", "hanguk", "bangmun">>, <<"maechul", "hanguk">>, <<"C001">>,
     <<"jinan", "m1">>}

SessionFilters == {"jeonche", "maechul", "georaecheo"}

SessionInit ==
    /\ raw_dataframes \in LoadedFrames
    /\ calc_query = <<>>
    /\ calc_filter = "jeonche"
    /\ calc_result = NoCall
    /\ LookupIdle
    /\ RouterIdle /\ MaskIdle /\ CellIdle /\ JoinIdle /\ AnalystIdle /\ LaterIdle

\* one call of lookup, from the idle engine
Lookup ==
    /\ lookup_result = NoLookup
    /\ calc_result = NoCall
    /\ \E query \in SessionLookupQueries, dataset_filter \in SessionFilters :
        /\ lookup_query' = query
        /\ lookup_filter' = dataset_filter
        /\ lookup_result' \in lookup(raw_dataframes, query, dataset_filter)
    /\ UNCHANGED <<calcVars, routerVars, maskVars, cellVars, joinVars, analystVars,
                   laterVars>>

\* the caller takes the records and goes on to its next question
NextLookup ==
    /\ lookup_result # NoLookup
    /\ lookup_query' = <<>>
    /\ lookup_filter' = "jeonche"
    /\ lookup_result' = NoLookup
    /\ UNCHANGED <<calcVars, routerVars, maskVars, cellVars, joinVars, analystVars,
                   laterVars>>

SessionNext ==
    Calculate(SessionCalcQueries) \/ NextRequest \/ Lookup \/ NextLookup

SpecSession == SessionInit /\ [][SessionNext]_vars

(***************************************************************************)
(* Claims about a session of the two engines.                              *)
(***************************************************************************)
LookedUp == lookup_result # NoLookup

Calculated == calc_result # NoCall

\* the records of the last lookup that come from one dataset
RecordsFrom(dataset) ==
    SelectSeq(lookup_result.found_records, LAMBDA rec : rec.dataset = dataset)

\* how often a row occurs in a list of rows
Occurrences(rows, row) == Cardinality({i \in DOMAIN rows : rows[i] = row})

\* every row of the first list is a row of the second, no more often
RowsWithin(filtered, original) ==
    /\ Len(filtered) <= Len(original)
    /\ \A i \in DOMAIN filtered :
           Occurrences(filtered, filtered[i]) <= Occurrences(original, filtered[i])

\* the records of a dataset are rows of its table, each row at most once
RecordsWithin(dataset) ==
    LET records == RecordsFrom(dataset)
        rows == raw_dataframes[dataset].rows
    IN /\ Len(records) <= Len(rows)
       /\ \A k \in DOMAIN records : records[k].row_id \in 0..(Len(rows) - 1)
       /\ \A k, l \in DOMAIN records :
              records[k].row_id = records[l].row_id => k = l

\* the date cell of the row a record was made from
DateOfRecord(rec) ==
    LET df == raw_dataframes[rec.dataset]
    IN df.rows[rec.row_id + 1][ColPos(df, "A-2")]

\* C12: a year/month date filter never widens the data.  In CalcEngine the
\* rows left by the year and month filters of the query are rows of the
\* selected table, no more than it has; in LookupEngine the records of
\* every searched table are rows of that table, each at most once, and
\* with a year (and month) in the query they are rows of that year (month).
C12_DateFilterNarrows ==
    /\ (SelectedLoaded /\ ~calc_result.raised) =>
           RowsWithin(DateFiltered(SelectedTable,
                                   analyze_query(calc_query).time_range).rows,
                      SelectedTable.rows)
    /\ LookedUp =>
           \A dataset \in DOMAIN raw_dataframes :
               /\ RecordsWithin(dataset)
               /\ HasCol(raw_dataframes[dataset], "A-2") =>
                      \A k \in DOMAIN RecordsFrom(dataset) :
                          LET date == DateOfRecord(RecordsFrom(dataset)[k])
                              conditions == lookup_result.search_conditions
                          IN /\ conditions.year # <<>> =>
                                    ContainsYear(date, conditions.year[1])
                             /\ conditions.month # <<>> =>
                                    ContainsDashMonth(date, conditions.month[1])

\* a lookup with a year and a month in its query kept some rows of the
\* sales table and left others out
C12_Witness ==
    /\ LookedUp
    /\ lookup_result.search_conditions.month # <<>>
    /\ "maechul" \in DOMAIN raw_dataframes
    /\ RecordsFrom("maechul") # <<>>
    /\ Len(RecordsFrom("maechul")) < Len(raw_dataframes["maechul"].rows)

CompanyNames == {"hanguk", "LGhwahak", "hanhwahwahak"}

\* the company names the query of the last lookup mentions
NamedCompanies == Range(lookup_query) \cap CompanyNames

\* the tables the last lookup searched that have a name and a date column
NameAndDateTables ==
    {dataset \in Range(select_lookup_datasets(lookup_query, lookup_filter)) :
        /\ dataset \in DOMAIN raw_dataframes
        /\ HasCol(raw_dataframes[dataset], "B-1")
        /\ HasCol(raw_dataframes[dataset], "A-2")}

\* the name cell of the row a record was made from
NameOfRecord(rec) ==
    LET df == raw_dataframes[rec.dataset]
    IN df.rows[rec.row_id + 1][ColPos(df, "B-1")]

\* the records of a table follow each other from the latest date to the
\* earliest, those without a date last
LatestFirst(records) ==
    \A k, l \in DOMAIN records :
        k < l => DateRank(DateOfRecord(records[k])) >= DateRank(DateOfRecord(records[l]))

\* C13: for a lookup whose query mentions "recent" and a company name,
\* every record returned from a table with a name column and a date column
\* holds the named company in its name column, and the records of that
\* table are ordered by the date column descending.
C13_RecentCompanyRecords ==
    (LookedUp /\ "choegeun" \in Range(lookup_query) /\ NamedCompanies # {}) =>
        \A dataset \in NameAndDateTables :
            /\ \A k \in DOMAIN RecordsFrom(dataset) :
                   \E name \in NamedCompanies :
                       name \in SubstringsOf(NameOfRecord(RecordsFrom(dataset)[k]))
            /\ LatestFirst(RecordsFrom(dataset))

\* C14: a lookup returns at most 10 matched records, whatever the query
\* and the dataset filter, also when several tables are searched.
C14_AtMostTenRecords ==
    LookedUp => Len(lookup_result.found_records) <= 10

\* C15: the loaded tables are immutable for the session: no calculate or
\* lookup call (a month group-by included) changes the columns or the rows
\* of a table the DataLoader holds.
C15_TablesImmutable == [][raw_dataframes' = raw_dataframes]_vars

\* the table the last calculate call selected is not loaded
SelectedNotLoaded ==
    /\ Calculated
    /\ select_datasets(calc_query, calc_filter)[1] \notin DOMAIN raw_dataframes

\* C16: when the table selected for a query is not loaded, calculate
\* returns the explicit "no data" result (no result table, no filter
\* conditions, no sample rows) instead of raising, and a lookup returns no
\* record for a table that is not loaded instead of raising.
C16_NotLoadedNoData ==
    /\ SelectedNotLoaded =>
           /\ ~calc_result.raised
           /\ calc_result.answer = "load_failed"
           /\ ~calc_result.result_df.present
           /\ calc_result.filter_conditions = <<>>
           /\ calc_result.sample_rows = <<>>
    /\ LookedUp =>
           /\ ~lookup_result.raised
           /\ \A k \in DOMAIN lookup_result.found_records :
                  lookup_result.found_records[k].dataset \in DOMAIN raw_dataframes

\* the aggregation step of the last calculate call ran and gave no table
\* or a table without rows
NoAggregationResult ==
    /\ SelectedLoaded
    /\ ~calc_result.raised
    /\ ~calc_result.result_df.present \/ calc_result.result_df.rows = <<>>

\* C17: whenever the aggregation of CalcEngine gives no result table or
\* one with zero rows, and whenever LookupEngine finds zero records, the
\* call returns the explicit no-result text, not an empty table and not an
\* exception.
C17_NoResultMessage ==
    /\ NoAggregationResult => calc_result.answer = "no_result"
    /\ (LookedUp /\ lookup_result.found_records = <<>>) =>
           ~lookup_result.raised /\ lookup_result.answer = "no_result"

\* a group-by on the rows of a year the table does not have gave a table
\* with zero rows
C17_Witness ==
    /\ NoAggregationResult
    /\ calc_result.result_df.present
    /\ calc_result.filter_conditions # <<>>

(***************************************************************************)
(* UnifiedProcessor: route the question, collect the data of the mode,     *)
(* and let the hosted model comment on the summary of the data.  A summary *)
(* or a context is a list of lines: the kind of a line and what it quotes. *)
(***************************************************************************)
Line(part, body) == [part |-> part, body |-> body]

\* UnifiedProcessor._collect_calc_data: the summary of one CalcResult
calc_data_summary(result) ==
    LET conditions == IF result.filter_conditions # <<>>
                      THEN <<Line("filter_conditions", result.filter_conditions)>>
                      ELSE <<>>
        samples == IF result.sample_rows # <<>>
                   THEN <<Line("samples", HeadRows(result.sample_rows, 3))>>
                   ELSE <<>>
    IN IF result.result_df.present /\ Len(result.result_df.rows) > 0
       THEN conditions
            \o <<Line("result", HeadRows(result.result_df.rows, 10))>>
            \o samples
       ELSE conditions

\* bool(search_conditions): the dict has a key
ConditionsGiven(c) ==
    \/ c.name # <<>> \/ c.year # <<>> \/ c.month # <<>> \/ c.code # <<>>
    \/ c.recent \/ c.past

\* UnifiedProcessor._collect_lookup_data: the summary of one LookupResult
lookup_data_summary(result) ==
    LET conditions == IF ConditionsGiven(result.search_conditions)
                      THEN <<Line("search_conditions", <<result.search_conditions>>)>>
                      ELSE <<>>
    IN IF result.found_records # <<>>
       THEN conditions \o <<Line("records", HeadRows(result.found_records, 5))>>
       ELSE conditions \o <<Line("no_records", <<>>)>>

\* the codebook the loader read: number and name of an item
Codebook ==
    << [number |-> "B-1", item |-> "georaecheo"],
       [number |-> "J-6", item |-> "jeonhwabeonho"] >>

\* the words of a question that are found in the text of a codebook row
RowWords(row) == {row.number, row.item, Lower(row.number)} \cup Words(row.item)

\* UnifiedProcessor._collect_rag_data: the rows that hold the question,
\* and if there is none the rows that hold a lower-cased word of it
collect_rag_data(query) ==
    LET whole == SelectSeq(Codebook,
                     LAMBDA row : Len(query) = 1 /\ query[1] \in RowWords(row))
        worded == SelectSeq(Codebook,
                      LAMBDA row : \E i \in DOMAIN query :
                                       Lower(query[i]) \in RowWords(row))
        relevant_items == IF whole # <<>> THEN whole ELSE worded
    IN <<Line("codebook", HeadRows(relevant_items, 5))>>
       \o (IF relevant_items = <<>> THEN <<Line("no_codebook_item", <<>>)>>
           ELSE <<>>)

\* UnifiedProcessor._generate_analysis
unified_generate_analysis(data_summary, outcome) ==
    [calls |-> <<[kind |-> "text", outcome |-> outcome]>>,
     response |-> IF outcome = "returns" THEN LlmText ELSE Fallback(data_summary)]

\* lines 73-82: the response built from the summary and the analysis
UnifiedResponse(mode, data_summary, frames, generated) ==
    [frames |-> frames,
     calls |-> generated.calls,
     response |-> [raised |-> FALSE, mode |-> mode,
                   data_summary |-> data_summary,
                   gemini_analysis |-> <<generated.response>>]]

\* a process call that returned
Responded(mode, data_summary, frames, outcome) ==
    UnifiedResponse(mode, data_summary, frames,
                    unified_generate_analysis(data_summary, outcome))

\* lines 65-66 and 73-82: the outcomes of process after a calculate call;
\* an exception of calculate leaves process
process_calc(call, outcome) ==
    {IF result.raised
     THEN [frames |-> call.frames, calls |-> <<>>,
           response |-> [NoResponse EXCEPT !.raised = TRUE, !.mode = "CALC"]]
     ELSE Responded("CALC", calc_data_summary(result), call.frames, outcome) :
     result \in call.results}

\* the outcomes of process for a question routed to mode
process_mode(mode, frames, query, dataset_filter, outcome) ==
    IF mode = "CALC"
    THEN process_calc(calculate(frames, query, dataset_filter), outcome)
    ELSE IF mode = "LOOKUP"
    THEN {Responded("LOOKUP", lookup_data_summary(result), frames, outcome) :
             result \in lookup(frames, query, dataset_filter)}
    ELSE {Responded(mode, collect_rag_data(query), frames, outcome)}

\* UnifiedProcessor.process: the outcomes the call may have
process(frames, query, dataset_filter, outcome) ==
    process_mode(route(query).mode, frames, query, dataset_filter, outcome)

(***************************************************************************)
(* RAGEngine: the vector store gives the documents it found, the context   *)
(* quotes them, and the hosted model answers from the context.             *)
(***************************************************************************)
\* RAGEngine._build_context
build_context(sources) ==
    <<Line("header", <<>>)>>
    \o [i \in DOMAIN sources |-> Line("document", <<sources[i]>>)]

\* RAGEngine._generate_answer: the message of the except branch quotes the
\* error and nothing else
rag_generate_answer(context, outcome) ==
    [calls |-> <<[kind |-> "text", outcome |-> outcome]>>,
     response |-> IF outcome = "returns" THEN LlmText
                  ELSE [kind |-> "error_only", data_context |-> <<>>]]

\* RAGEngine.search_and_generate, given what VectorStore.search returned
search_and_generate(sources, outcome) ==
    LET context == build_context(sources)
        generated == rag_generate_answer(context, outcome)
    IN [calls |-> generated.calls,
        result |-> [answer |-> <<generated.response>>,
                    sources |-> sources,
                    context_used |-> context]]

(***************************************************************************)
(* The three components that call the hosted model, one call at a time:    *)
(* the loader holds the three files in full, one table and maybe one      *)
(* image are uploaded, and the vector store finds up to MaxSources         *)
(* documents.                                                              *)
(***************************************************************************)
MaxSources == 2

RagDocuments ==
    {[source |-> "codebook", text |-> "J-6 jeonhwabeonho"],
     [source |-> "yeongeopilji", text |-> "hanguk bangmun"]}

ProcessQueries ==
    {<<"georaecheobyeol", "sangwi", "n1">>, <<"hawi", "n1">>, <<"wolbyeol">>,
     <<"choegeun", "hanguk">>, <<"hanhwahwahak">>, <<"J-6eun?">>, <<"hello">>,
     <<"J-6", "hangmogeun">>}

LlmFrames ==
    {frames \in LoadedFrames :
        /\ DOMAIN frames = {"maechul", "georaecheo", "ilji"}
        /\ Len(frames["maechul"].rows) = MaxSessionRows}

LlmUploads == {files \in UploadedFiles : Len(files) = 1}

CallOutcomes == {"returns", "raises"}

\* no component is serving a question
ComponentsIdle ==
    /\ analyze_request = <<>>
    /\ process_request = <<>>
    /\ rag_request = <<>>

LlmInit ==
    /\ raw_dataframes \in LlmFrames
    /\ calc_query = <<>>
    /\ calc_filter = "jeonche"
    /\ calc_result = NoCall
    /\ join_dataframes \in LlmUploads
    /\ join_result = NotJoined
    /\ uploaded_images \in {<<>>, <<"chart.png">>}
    /\ analyze_request = <<>>
    /\ llm_calls = <<>>
    /\ analysis_result = NoAnalysis
    /\ RouterIdle /\ MaskIdle /\ CellIdle /\ LookupIdle /\ LaterIdle

Process ==
    /\ ComponentsIdle
    /\ \E query \in ProcessQueries, dataset_filter \in SessionFilters,
          outcome \in CallOutcomes :
        \E done \in process(raw_dataframes, query, dataset_filter, outcome) :
            /\ process_request' = <<[query |-> query,
                                     dataset_filter |-> dataset_filter]>>
            /\ raw_dataframes' = done.frames
            /\ llm_calls' = done.calls
            /\ unified_response' = done.response
    /\ UNCHANGED <<calc_query, calc_filter, calc_result, routerVars, maskVars,
                   cellVars, joinVars, uploaded_images, analyze_request,
                   analysis_result, lookupVars, ragVars, appVars, lastVars>>

SearchAndGenerate ==
    /\ ComponentsIdle
    /\ \E query \in ProcessQueries, sources \in SeqsUpTo(RagDocuments, MaxSources),
          outcome \in CallOutcomes :
        LET done == search_and_generate(sources, outcome)
        IN /\ rag_request' = <<[query |-> query, sources |-> sources]>>
           /\ llm_calls' = done.calls
           /\ rag_result' = done.result
    /\ UNCHANGED <<calcVars, routerVars, maskVars, cellVars, joinVars,
                   uploaded_images, analyze_request, analysis_result, lookupVars,
                   processorVars, appVars, lastVars>>

\* the caller shows the answer and waits for the next question
NextAnswer ==
    /\ process_request # <<>> \/ rag_request # <<>>
    /\ process_request' = <<>>
    /\ unified_response' = NoResponse
    /\ rag_request' = <<>>
    /\ rag_result' = NoRAGResult
    /\ llm_calls' = <<>>
    /\ UNCHANGED <<calcVars, routerVars, maskVars, cellVars, joinVars,
                   uploaded_images, analyze_request, analysis_result, lookupVars,
                   appVars, lastVars>>

LlmNext == Analyze \/ NextQuestion \/ Process \/ SearchAndGenerate \/ NextAnswer

SpecLlm == LlmInit /\ [][LlmNext]_vars

(***************************************************************************)
(* Claims about the calls of the hosted model.                             *)
(***************************************************************************)
Processed == process_request # <<>>

Searched == rag_request # <<>>

\* a call of the hosted model raised while the question was served
LlmCallRaised == \E i \in DOMAIN llm_calls : llm_calls[i].outcome = "raises"

\* C18: in SmartAnalyst, UnifiedProcessor and RAGEngine alike, when the
\* call of the hosted model raised, the component returned (nothing was
\* raised to its caller) and its answer is the fallback message that
\* quotes the data the component had collected for the question.
C18_LlmFailureFallback ==
    /\ (Analyzed /\ LlmCallRaised) =>
           /\ ~analysis_result.raised
           /\ analysis_result.gemini_response
                  = <<Fallback(analysis_result.data_context)>>
    /\ (Processed /\ LlmCallRaised) =>
           /\ ~unified_response.raised
           /\ unified_response.gemini_analysis
                  = <<Fallback(unified_response.data_summary)>>
    /\ (Searched /\ LlmCallRaised) =>
           rag_result.answer = <<Fallback(rag_result.context_used)>>

\* the nearby statements that hold: the processor always quotes its data
C18_ProcessorFallback ==
    (Processed /\ LlmCallRaised) =>
        /\ ~unified_response.raised
        /\ unified_response.gemini_analysis
               = <<Fallback(unified_response.data_summary)>>

\* ... and no component lets the exception of the call out
C18_NeverRaised ==
    /\ (Analyzed /\ LlmCallRaised) =>
           ~analysis_result.raised /\ Len(analysis_result.gemini_response) = 1
    /\ (Searched /\ LlmCallRaised) => Len(rag_result.answer) = 1

\* C19: nothing is retried: one analyze call issues at most one call of
\* the hosted model, and after a call that raised no further call is issued.
C19_AtMostOneLlmCall ==
    Analyzed =>
        /\ Len(llm_calls) <= 1
        /\ \A i \in DOMAIN llm_calls :
               llm_calls[i].outcome = "raises" => i = Len(llm_calls)

\* what holds: without an uploaded image, or with include_images false,
\* there is exactly one call
C19_OneCallWithoutImages ==
    (Analyzed /\ (uploaded_images = <<>> \/ ~analyze_request[1].include_images)) =>
        Len(llm_calls) = 1

(***************************************************************************)
(* app.py, main: the chat input and the quick-question buttons.  A run of  *)
(* main with a question is written as [handler, raised, caught, displayed, *)
(* propagated, runs]: whether answering raised, whether main caught it,    *)
(* what the page showed for the question, whether the exception left main, *)
(* and how many questions the session has served.                          *)
(***************************************************************************)
Message(role, content, tables) ==
    [role |-> role, content |-> content, tables |-> tables]

\* seeded fault: a context that is never cut
RememberedAll(context, query, response) ==
    Append(context, [query |-> query, response |-> response])

\* lines 260-265 and 311-316: append, and drop the oldest beyond three
Remembered(context, query, response) ==
    LET appended == Append(context, [query |-> query, response |-> response])
    IN IF Len(appended) > 3 THEN Tail(appended) ELSE appended

RunOf(handler, raised, caught, displayed, propagated) ==
    [handler |-> handler, raised |-> raised, caught |-> caught,
     displayed |-> displayed, propagated |-> propagated, runs |-> 0]

\* seeded fault: the chat input without its except branch
chat_input_uncaught(history, context, user_query, attempt) ==
    LET asked == Append(history, Message("user", Line("question", user_query), <<>>))
    IN IF attempt.raised
       THEN [chat_history |-> asked,
             conversation_context |-> context,
             run |-> RunOf("chat_input", TRUE, FALSE, <<>>, TRUE)]
       ELSE [chat_history |-> Append(asked,
                 Message("assistant", Line("response", attempt.gemini_response),
                         attempt.tables)),
             conversation_context |->
                 Remembered(context, user_query, attempt.gemini_response),
             run |-> RunOf("chat_input", FALSE, FALSE, <<"response">>, FALSE)]

\* lines 217-273: the user message is added to the history; in the try
\* block the analyst answers, the answer is shown and added to the history
\* and to the context; the except branch shows the error message and adds
\* it to the history
chat_input(history, context, user_query, attempt) ==
    LET asked == Append(history, Message("user", Line("question", user_query), <<>>))
    IN IF attempt.raised
       THEN [chat_history |-> Append(asked,
                 Message("assistant", Line("error", <<>>), <<>>)),
             conversation_context |-> context,
             run |-> RunOf("chat_input", TRUE, TRUE, <<"error">>, FALSE)]
       ELSE [chat_history |-> Append(asked,
                 Message("assistant", Line("response", attempt.gemini_response),
                         attempt.tables)),
             conversation_context |->
                 Remembered(context, user_query, attempt.gemini_response),
             run |-> RunOf("chat_input", FALSE, FALSE, <<"response">>, FALSE)]

\* lines 286-321: the question of the button is added to the history; in
\* the try block the analyst answers, the answer is added to the history
\* and to the context and the page is run again (st.rerun leaves the
\* script with a control-flow signal that is no Exception); the except
\* branch shows the error message
quick_question(history, context, question, attempt) ==
    LET asked == Append(history, Message("user", Line("question", question), <<>>))
    IN IF attempt.raised
       THEN [chat_history |-> asked,
             conversation_context |-> context,
             run |-> RunOf("quick_question", TRUE, TRUE, <<"error">>, FALSE)]
       ELSE [chat_history |-> Append(asked,
                 Message("assistant", Line("response", attempt.gemini_response),
                         attempt.tables)),
             conversation_context |->
                 Remembered(context, question, attempt.gemini_response),
             run |-> RunOf("quick_question", FALSE, FALSE, <<"rerun">>, FALSE)]

\* lines 278-282
quick_questions ==
    << <<"i", "deiteoui", "juyo", "teukjingeul", "allyeojwo">>,
       <<"gajang", "jungyohan", "insaiteu", "n3gajineun?">>,
       <<"munjejeomina", "gaeseonjeomeul", "chajajwo">> >>

\* an analyze call that raised: nothing in analyze catches the TypeError
\* of smart_analyst.py lines 108 and 119 (a column label that is no text)
\* or an error of the upload handler
RaisedAnalysis ==
    [joined |-> NotJoined, calls |-> <<>>,
     result |-> [NoAnalysis EXCEPT !.raised = TRUE]]

\* analyst.analyze(query, include_images=True,
\* conversation_context=st.session_state.conversation_context) as main
\* calls it
Answering(query, raises, outcomes) ==
    IF raises THEN RaisedAnalysis
    ELSE analyze(query, TRUE, join_dataframes, uploaded_images,
                 conversation_context, outcomes)

(***************************************************************************)
(* The page as a state machine: files are uploaded, the session has had    *)
(* no or three answered questions, and up to MaxRuns more are asked.       *)
(***************************************************************************)
MaxRuns == 2

ChatQueries == {<<"hello">>, <<"sangwi", "n1">>}

AppUploads == {files \in UploadedFiles : Len(files) <= 1}

\* the history and the context after n answered first quick questions
EarlierHistory(n) ==
    [i \in 1..(2 * n) |->
        IF i % 2 = 1 THEN Message("user", Line("question", quick_questions[1]), <<>>)
        ELSE Message("assistant", Line("response", <<LlmText>>), <<>>)]

EarlierContext(n) ==
    [i \in 1..n |-> [query |-> quick_questions[1], response |-> <<LlmText>>]]

AppInit ==
    /\ join_dataframes \in AppUploads
    /\ join_result = NotJoined
    /\ uploaded_images \in {<<>>, <<"chart.png">>}
    /\ Len(join_dataframes) + Len(uploaded_images) > 0
    /\ analyze_request = <<>>
    /\ llm_calls = <<>>
    /\ analysis_result = NoAnalysis
    /\ \E n \in {0, 3} :
        /\ chat_history = EarlierHistory(n)
        /\ conversation_context = EarlierContext(n)
    /\ script_run = NoRun
    /\ CalcIdle /\ RouterIdle /\ MaskIdle /\ CellIdle /\ LookupIdle
    /\ ProcessorIdle /\ RagIdle /\ LastIdle

\* what a run of main with a question leaves behind
Served(query, answering, done) ==
    /\ analyze_request' = <<[query |-> query, include_images |-> TRUE]>>
    /\ join_result' = answering.joined
    /\ llm_calls' = answering.calls
    /\ analysis_result' = answering.result
    /\ chat_history' = done.chat_history
    /\ conversation_context' = done.conversation_context
    /\ script_run' = [done.run EXCEPT !.runs = script_run.runs + 1]
    /\ UNCHANGED <<join_dataframes, uploaded_images, calcVars, routerVars,
                   maskVars, cellVars, lookupVars, processorVars, ragVars,
                   lastVars>>

ChatInput ==
    /\ script_run.runs < MaxRuns
    /\ ~script_run.propagated
    /\ \E user_query \in ChatQueries, raises \in BOOLEAN, outcomes \in LlmOutcomes :
        \E answering \in {Answering(user_query, raises, outcomes)} :
            Served(user_query, answering,
                   chat_input(chat_history, conversation_context, user_query,
                              answering.result))

QuickQuestion ==
    /\ script_run.runs < MaxRuns
    /\ ~script_run.propagated
    /\ \E i \in DOMAIN quick_questions, raises \in BOOLEAN, outcomes \in LlmOutcomes :
        \E answering \in {Answering(quick_questions[i], raises, outcomes)} :
            Served(quick_questions[i], answering,
                   quick_question(chat_history, conversation_context,
                                  quick_questions[i], answering.result))

AppNext == ChatInput \/ QuickQuestion

SpecApp == AppInit /\ [][AppNext]_vars

(***************************************************************************)
(* Claims about the page.                                                  *)
(***************************************************************************)
\* C20: an exception raised while a question is answered, typed into the
\* chat input or asked with a quick-question button, is caught in main and
\* shown as an error message: it does not leave main, and the session keeps
\* its history and its context, the question included.
C20_QueryErrorsCaught ==
    script_run.raised =>
        /\ script_run.caught
        /\ ~script_run.propagated
        /\ script_run.displayed = <<"error">>
        /\ Len(conversation_context) <= 3
        /\ \E i \in DOMAIN chat_history :
               /\ chat_history[i].role = "user"
               /\ chat_history[i].content = Line("question", analyze_request[1].query)
               /\ i >= Len(chat_history) - 1

\* a question failed, the session went on, and the next question, asked
\* the other way, failed too
C20_Witness ==
    /\ script_run.raised
    /\ script_run.runs = 2
    /\ script_run.handler = "quick_question"
    /\ Len(chat_history) >= 3
    /\ chat_history[Len(chat_history) - 1].role = "assistant"
    /\ chat_history[Len(chat_history) - 1].content = Line("error", <<>>)

\* the question/answer pairs of the history from message i on: a question
\* followed by its answer, in the order asked
RECURSIVE AnsweredFrom(_)
AnsweredFrom(i) ==
    IF i >= Len(chat_history) THEN <<>>
    ELSE IF /\ chat_history[i].role = "user"
            /\ chat_history[i + 1].role = "assistant"
            /\ chat_history[i + 1].content.part = "response"
    THEN <<[query |-> chat_history[i].content.body,
            response |-> chat_history[i + 1].content.body]>>
         \o AnsweredFrom(i + 2)
    ELSE AnsweredFrom(i + 1)

\* the last n elements of a sequence
LastOf(s, n) == SubSeq(s, Len(s) - MinOf(n, Len(s)) + 1, Len(s))

\* C21: the conversation context holds exactly the most recent min(3, k)
\* question/answer pairs of the k answered questions of the session, in
\* the order asked: never more than three, and nothing of a failed question.
C21_ContextIsLastThree ==
    /\ Len(conversation_context) <= 3
    /\ conversation_context = LastOf(AnsweredFrom(1), 3)

\* more than three questions were answered, and the latest question failed
C21_Witness ==
    /\ Len(AnsweredFrom(1)) > 3
    /\ script_run.raised
    /\ conversation_context[3].query # quick_questions[1]

\* C29: the history alternates user and assistant messages: every user
\* message is followed by exactly one assistant message, the answer or an
\* error message, whether the analysis succeeded or failed.
C29_HistoryAlternates ==
    /\ Len(chat_history) % 2 = 0
    /\ \A i \in DOMAIN chat_history :
           chat_history[i].role = IF i % 2 = 1 THEN "user" ELSE "assistant"

\* what holds: a typed question is always followed by its answer or by
\* the error message, and no assistant message follows another
C29_TypedQuestionAnswered ==
    /\ script_run.handler = "chat_input" =>
           /\ Len(chat_history) >= 2
           /\ chat_history[Len(chat_history)].role = "assistant"
           /\ chat_history[Len(chat_history) - 1].role = "user"
    /\ \A i \in DOMAIN chat_history :
           (i > 1 /\ chat_history[i].role = "assistant") =>
               chat_history[i - 1].role = "user"

\* a question is asked in a session that has a conversation context, and
\* the hosted model is called for it
AskedWithContext ==
    /\ conversation_context # <<>>
    /\ script_run'.runs = script_run.runs + 1
    /\ llm_calls' # <<>>

\* C22: whenever a question is analysed with a non-empty conversation
\* context, with or without uploaded images, every prompt sent to the
\* hosted model quotes the last (up to three) question/answer pairs, each
\* answer cut to its first 200 characters.
C22_PromptQuotesContext ==
    [][AskedWithContext =>
          \A i \in DOMAIN llm_calls' :
              llm_calls'[i].pairs = PromptPairs(conversation_context)]_vars

\* what holds: without an uploaded image there is one call, and its prompt
\* quotes the pairs of the context, the answers cut
C22_TextPromptQuotesContext ==
    [][(AskedWithContext /\ uploaded_images = <<>>) =>
          /\ Len(llm_calls') = 1
          /\ llm_calls'[1].pairs = PromptPairs(conversation_context)
          /\ Len(llm_calls'[1].pairs) = Len(conversation_context)]_vars

(***************************************************************************)
(* Loading a CSV file.  pandas.read_csv is outside the program: for a file *)
(* and an encoding it returns a table, raises a UnicodeDecodeError, raises *)
(* another error (a ParserError, an EmptyDataError), or, for a path that   *)
(* names no file, raises FileNotFoundError.  A file is written as the      *)
(* function from encodings to these outcomes; the table read under an      *)
(* encoding is written as <<encoding>>.                                    *)
(***************************************************************************)
\* config.py
ENCODINGS == <<"utf-8-sig", "utf-8", "cp949", "euc-kr">>

\* the list of UploadHandler._process_csv
encodings == <<"utf-8-sig", "utf-8", "cp949", "euc-kr", "latin-1">>

Loaded(loader, tried, df, reported) ==
    [loader |-> loader, tried |-> tried, df |-> df, reported |-> reported]

\* utils.load_csv_with_fallback from the i-th encoding on: a decode error
\* goes on to the next encoding, any other error returns None at once
RECURSIVE load_csv_with_fallback(_, _)
load_csv_with_fallback(file, i) ==
    IF i > Len(ENCODINGS)
    THEN Loaded("load_csv_with_fallback", ENCODINGS, <<>>, "all_failed")
    ELSE LET encoding == ENCODINGS[i]
             tried == SubSeq(ENCODINGS, 1, i)
         IN IF file[encoding] = "parses"
            THEN Loaded("load_csv_with_fallback", tried, <<encoding>>, "loaded")
            ELSE IF file[encoding] = "decode_error"
            THEN load_csv_with_fallback(file, i + 1)
            ELSE IF file[encoding] = "not_found"
            THEN Loaded("load_csv_with_fallback", tried, <<>>, "not_found")
            ELSE Loaded("load_csv_with_fallback", tried, <<>>, "error")

\* the loop of UploadHandler._process_csv from the i-th encoding on: every
\* exception goes on to the next encoding, and without a table a
\* ValueError is raised
RECURSIVE process_csv(_, _)
process_csv(file, i) ==
    IF i > Len(encodings)
    THEN Loaded("process_csv", encodings, <<>>, "ValueError")
    ELSE IF file[encodings[i]] = "parses"
    THEN Loaded("process_csv", SubSeq(encodings, 1, i), <<encodings[i]>>, "loaded")
    ELSE process_csv(file, i + 1)

\* the files: every byte string decodes as latin-1, and a path that names
\* no file does so under every encoding
CsvFiles ==
    {file \in [Range(encodings) -> {"parses", "decode_error", "other_error"}] :
        file["latin-1"] # "decode_error"}
    \cup {[encoding \in Range(encodings) |-> "not_found"]}

CsvInit ==
    /\ csv_file \in CsvFiles
    /\ csv_load = NoLoad
    /\ CalcIdle /\ RouterIdle /\ MaskIdle /\ CellIdle /\ JoinIdle
    /\ AnalystIdle /\ LookupIdle /\ ProcessorIdle /\ RagIdle /\ AppIdle
    /\ PageIdle /\ TopNIdle /\ StoreIdle

LoadCsv ==
    /\ csv_load' = load_csv_with_fallback(csv_file, 1)
    /\ UNCHANGED <<csv_file, calcVars, routerVars, maskVars, cellVars, joinVars,
                   analystVars, lookupVars, processorVars, ragVars, appVars,
                   pageVars, topnVars, storeVars>>

\* the bytes of an upload are there: no path is opened
ProcessCsv ==
    /\ csv_file["latin-1"] # "not_found"
    /\ csv_load' = process_csv(csv_file, 1)
    /\ UNCHANGED <<csv_file, calcVars, routerVars, maskVars, cellVars, joinVars,
                   analystVars, lookupVars, processorVars, ragVars, appVars,
                   pageVars, topnVars, storeVars>>

CsvNext == LoadCsv \/ ProcessCsv

SpecCsv == CsvInit /\ [][CsvNext]_vars

\* the list of encodings of the loader of the last load
EncodingsOf(load) ==
    IF load.loader = "process_csv" THEN encodings ELSE ENCODINGS

\* the positions of the encodings of a list under which the file parses
Parsing(file, list) == {i \in DOMAIN list : file[list[i]] = "parses"}

\* C23: a load tries the encodings in the order of the list and returns
\* the table of the first encoding that parses without error: a failure
\* under one encoding leads to the next, and the load fails only after
\* every encoding of the list has failed.
C23_FirstParsingEncodingWins ==
    csv_load.loader # "None" =>
        LET list == EncodingsOf(csv_load)
            parsing == Parsing(csv_file, list)
        IN IF parsing = {}
           THEN csv_load.df = <<>> /\ csv_load.tried = list
           ELSE LET first == CHOOSE i \in parsing : \A j \in parsing : i <= j
                IN /\ csv_load.df = <<list[first]>>
                   /\ csv_load.tried = SubSeq(list, 1, first)

\* what holds: the loop of the upload handler goes through its own list
\* as claimed, and load_csv_with_fallback does so as long as the failures
\* are decode errors; it always returns the table of the last encoding it
\* tried or None
C23_DecodeErrorsFallBack ==
    /\ csv_load.loader = "process_csv" => C23_FirstParsingEncodingWins
    /\ csv_load.loader = "load_csv_with_fallback" =>
           /\ csv_load.tried = SubSeq(ENCODINGS, 1, Len(csv_load.tried))
           /\ \A i \in 1..(Len(csv_load.tried) - 1) :
                  csv_file[ENCODINGS[i]] = "decode_error"
           /\ csv_load.df # <<>> =>
                  /\ csv_load.df = <<ENCODINGS[Len(csv_load.tried)]>>
                  /\ csv_file[csv_load.df[1]] = "parses"
           /\ (\A i \in DOMAIN ENCODINGS :
                  csv_file[ENCODINGS[i]] \in {"parses", "decode_error"})
                  => C23_FirstParsingEncodingWins

(***************************************************************************)
(* app.py, main: the sidebar.  A file of the uploader is written as        *)
(* [name, suffix, csv, readable, table]: its name and the suffix of the    *)
(* name, what read_csv does with its bytes per encoding, whether           *)
(* read_excel reads them, and the table they hold.  The handler's          *)
(* uploaded_files is kept as its tables, its images and its PDF files.     *)
(***************************************************************************)
SUPPORTED_FORMATS ==
    [csv |-> {".csv"}, excel |-> {".xlsx", ".xls"},
     image |-> {".png", ".jpg", ".jpeg", ".gif", ".bmp"}, pdf |-> {".pdf"}]

\* Path(filename).suffix.lower()
SuffixLower(suffix) ==
    CASE suffix = ".PNG" -> ".png"
      [] suffix = ".CSV" -> ".csv"
      [] OTHER -> suffix

\* UploadHandler._detect_file_type
detect_file_type(file_ext) ==
    IF \E file_type \in DOMAIN SUPPORTED_FORMATS : file_ext \in SUPPORTED_FORMATS[file_type]
    THEN CHOOSE file_type \in DOMAIN SUPPORTED_FORMATS :
             file_ext \in SUPPORTED_FORMATS[file_type]
    ELSE "unknown"

UploadedFile(name, type, df) ==
    [raised |-> FALSE, name |-> name, type |-> type, df |-> df]

UploadRaised(name) == [raised |-> TRUE, name |-> name, type |-> "None", df |-> NoneDF]

\* UploadHandler.process_upload: the UploadedFile, or the exception of an
\* unsupported suffix, of a CSV file no encoding parses, of read_excel
process_upload(file) ==
    LET file_type == detect_file_type(SuffixLower(file.suffix))
    IN CASE file_type = "csv" ->
               IF process_csv(file.csv, 1).df = <<>> THEN UploadRaised(file.name)
               ELSE UploadedFile(file.name, "csv", file.table)
         [] file_type = "excel" ->
               IF file.readable THEN UploadedFile(file.name, "excel", file.table)
               ELSE UploadRaised(file.name)
         [] file_type = "image" -> UploadedFile(file.name, "image", NoneDF)
         [] file_type = "pdf" -> UploadedFile(file.name, "pdf", NoneDF)
         [] OTHER -> UploadRaised(file.name)

\* the names of handler.uploaded_files
HandlerNames(handler) ==
    {handler.dataframes[i].filename : i \in DOMAIN handler.dataframes}
    \cup Range(handler.images) \cup Range(handler.pdfs)

\* UploadHandler.get_file_by_name(name) is not None
get_file_by_name(handler, name) == name \in HandlerNames(handler)

\* UploadHandler.add_file
add_file(handler, processed) ==
    CASE processed.type \in {"csv", "excel"} ->
             [handler EXCEPT !.dataframes =
                 Append(@, [filename |-> processed.name, df |-> processed.df])]
      [] processed.type = "image" ->
             [handler EXCEPT !.images = Append(@, processed.name)]
      [] OTHER -> [handler EXCEPT !.pdfs = Append(@, processed.name)]

\* seeded fault: a file whose processing failed is kept as a file without
\* content
upload_file_keeps_failed(handler, file) ==
    IF get_file_by_name(handler, file.name)
    THEN [handler |-> handler, displayed |-> "none"]
    ELSE LET processed == process_upload(file)
         IN IF processed.raised
            THEN [handler |-> add_file(handler, processed), displayed |-> "error"]
            ELSE [handler |-> add_file(handler, processed), displayed |-> "success"]

\* lines 66-78: one file of the uploader
upload_file(handler, file) ==
    IF get_file_by_name(handler, file.name)
    THEN [handler |-> handler, displayed |-> "none"]
    ELSE LET processed == process_upload(file)
         IN IF processed.raised
            THEN [handler |-> handler, displayed |-> "error"]
            ELSE [handler |-> add_file(handler, processed), displayed |-> "success"]

\* lines 64-78: the loop over the files of the uploader, from the i-th on
RECURSIVE upload_files(_, _, _)
upload_files(handler, files, i) ==
    IF i > Len(files) THEN [handler |-> handler, displayed |-> <<>>]
    ELSE LET step == upload_file(handler, files[i])
             rest == upload_files(step.handler, files, i + 1)
         IN [handler |-> rest.handler,
             displayed |-> <<step.displayed>> \o rest.displayed]

(***************************************************************************)
(* The page as a state machine, from a new session on: files are chosen    *)
(* in the uploader, removed one by one or all at once, and up to MaxRuns   *)
(* questions are asked while there are files.                              *)
(***************************************************************************)
MaxBatch == 2

SalesTable == DF(<<"georaecheo", "hapgye">>, <<"object", "number">>, << <<"A", "10">> >>)

\* a file in cp949, and an empty file
Cp949Bytes ==
    [encoding \in Range(encodings) |->
        IF encoding \in {"utf-8-sig", "utf-8"} THEN "decode_error" ELSE "parses"]

EmptyBytes == [encoding \in Range(encodings) |-> "other_error"]

File(name, suffix, csv, readable, table) ==
    [name |-> name, suffix |-> suffix, csv |-> csv, readable |-> readable,
     table |-> table]

PageFiles ==
    {File("sales.csv", ".csv", Cp949Bytes, TRUE, SalesTable),
     File("sales.csv", ".csv", EmptyBytes, FALSE, NoneDF),
     File("book.xlsx", ".xlsx", EmptyBytes, TRUE, SalesTable),
     File("book.xlsx", ".xlsx", EmptyBytes, FALSE, NoneDF),
     File("chart.PNG", ".PNG", EmptyBytes, FALSE, NoneDF),
     File("report.pdf", ".pdf", EmptyBytes, FALSE, NoneDF),
     File("notes.txt", ".txt", EmptyBytes, FALSE, NoneDF)}

\* what the uploader holds: files of different names
Batches ==
    {files \in SeqsUpTo(PageFiles, MaxBatch) \ {<<>>} :
        \A i, j \in DOMAIN files : i # j => files[i].name # files[j].name}

Handler ==
    [dataframes |-> join_dataframes, images |-> uploaded_images,
     pdfs |-> uploaded_pdfs]

\* len(handler.uploaded_files) > 0: the chat is shown
HasFiles == HandlerNames(Handler) # {}

\* a new session
SidebarInit ==
    /\ join_dataframes = <<>>
    /\ join_result = NotJoined
    /\ AnalystIdle /\ AppIdle /\ PageIdle
    /\ CalcIdle /\ RouterIdle /\ MaskIdle /\ CellIdle /\ LookupIdle
    /\ ProcessorIdle /\ RagIdle /\ CsvIdle /\ TopNIdle /\ StoreIdle

\* lines 57-78: what a run of main whose uploader holds the files leaves
UploadLoop(files, done) ==
    /\ join_dataframes' = done.handler.dataframes
    /\ uploaded_images' = done.handler.images
    /\ uploaded_pdfs' = done.handler.pdfs
    /\ upload_run' = [files |-> files, displayed |-> done.displayed]
    /\ UNCHANGED <<join_result, analyze_request, llm_calls, analysis_result,
                   calcVars, routerVars, maskVars, cellVars, lookupVars,
                   processorVars, ragVars, appVars, csvVars, topnVars,
                   storeVars>>

\* the user changes the files of the uploader
Upload ==
    \E files \in Batches :
        \E done \in {upload_files(Handler, files, 1)} : UploadLoop(files, done)

\* the run that follows st.rerun(): the uploader holds what it held
Rerun ==
    /\ upload_run.files # <<>>
    /\ \E done \in {upload_files(Handler, upload_run.files, 1)} :
           UploadLoop(upload_run.files, done)

\* lines 99-101: the button of one file
RemoveFile ==
    /\ \E name \in HandlerNames(Handler) :
        /\ join_dataframes' = SelectSeq(join_dataframes, LAMBDA f : f.filename # name)
        /\ uploaded_images' = SelectSeq(uploaded_images, LAMBDA f : f # name)
        /\ uploaded_pdfs' = SelectSeq(uploaded_pdfs, LAMBDA f : f # name)
    /\ upload_run' = [upload_run EXCEPT !.displayed = <<>>]
    /\ UNCHANGED <<join_result, analyze_request, llm_calls, analysis_result,
                   calcVars, routerVars, maskVars, cellVars, lookupVars,
                   processorVars, ragVars, appVars, csvVars, topnVars,
                   storeVars>>

\* lines 117-120: handler.clear_files() and an empty chat history; the
\* conversation context is left as it is
RemoveAll ==
    /\ HasFiles
    /\ join_dataframes' = <<>>
    /\ uploaded_images' = <<>>
    /\ uploaded_pdfs' = <<>>
    /\ chat_history' = <<>>
    /\ upload_run' = [upload_run EXCEPT !.displayed = <<>>]
    /\ UNCHANGED <<join_result, analyze_request, llm_calls, analysis_result,
                   conversation_context, script_run,
                   calcVars, routerVars, maskVars, cellVars, lookupVars,
                   processorVars, ragVars, csvVars, topnVars, storeVars>>

SidebarNext == Upload \/ Rerun \/ RemoveFile \/ RemoveAll

SpecSidebar == SidebarInit /\ [][SidebarNext]_vars

(***************************************************************************)
(* The page with its chat: files have been uploaded in a new session, up   *)
(* to MaxRuns questions are asked while there are files, and the files are *)
(* removed all at once; the uploader keeps its files.                      *)
(***************************************************************************)
FirstBatches ==
    {<<File("sales.csv", ".csv", Cp949Bytes, TRUE, SalesTable)>>,
     <<File("notes.txt", ".txt", EmptyBytes, FALSE, NoneDF),
       File("chart.PNG", ".PNG", EmptyBytes, FALSE, NoneDF)>>}

NoHandler == [dataframes |-> <<>>, images |-> <<>>, pdfs |-> <<>>]

PageInit ==
    /\ \E files \in FirstBatches :
        \E done \in {upload_files(NoHandler, files, 1)} :
            /\ join_dataframes = done.handler.dataframes
            /\ uploaded_images = done.handler.images
            /\ uploaded_pdfs = done.handler.pdfs
            /\ upload_run = [files |-> files, displayed |-> done.displayed]
    /\ join_result = NotJoined
    /\ analyze_request = <<>>
    /\ llm_calls = <<>>
    /\ analysis_result = NoAnalysis
    /\ AppIdle
    /\ CalcIdle /\ RouterIdle /\ MaskIdle /\ CellIdle /\ LookupIdle
    /\ ProcessorIdle /\ RagIdle /\ CsvIdle /\ TopNIdle /\ StoreIdle

PageNext ==
    \/ RemoveAll
    \/ Rerun
    \/ HasFiles /\ ChatInput
    \/ HasFiles /\ QuickQuestion

SpecPage == PageInit /\ [][PageNext]_vars

(***************************************************************************)
(* Claims about the uploads and the removal of files.                      *)
(***************************************************************************)
\* a run of the upload loop that showed a message or changed the files
UploadLoopRan ==
    /\ upload_run'.displayed # <<>>
    /\ <<upload_run', Handler'>> # <<upload_run, Handler>>

\* the files of the uploader that are new to the handler and whose
\* processing raises
FailingUploads(handler, files) ==
    {i \in DOMAIN files : /\ ~get_file_by_name(handler, files[i].name)
                          /\ process_upload(files[i]).raised}

\* C24: a file whose processing fails, for its suffix or for its content,
\* is rejected with an error message and no file of its name is kept; when
\* no new file of the uploader could be processed, the handler's files are
\* exactly what they were.
C24_FailedUploadRejected ==
    [][UploadLoopRan =>
          LET files == upload_run'.files
              failing == FailingUploads(Handler, files)
          IN /\ \A i \in failing :
                    /\ upload_run'.displayed[i] = "error"
                    /\ files[i].name \notin HandlerNames(Handler')
             /\ \A i \in DOMAIN files \ failing :
                    /\ upload_run'.displayed[i] # "error"
                    /\ files[i].name \in HandlerNames(Handler')
             /\ (\A i \in DOMAIN files :
                    i \in failing \/ get_file_by_name(Handler, files[i].name))
                    => Handler' = Handler]_vars

\* a CSV file that no encoding parses was rejected next to a file that was
\* added, and a file with an unsupported suffix was rejected too
C24_Witness ==
    /\ Len(upload_run.files) = 2
    /\ upload_run.files[1].suffix = ".csv"
    /\ upload_run.displayed = <<"error", "success">>
    /\ "sales.csv" \notin HandlerNames(Handler)
    /\ Len(uploaded_images) = 1

\* C30: after all files were removed, which empties the chat history, the
\* conversation context is empty until a new question is answered.
C30_ContextEmptyAfterRemoval ==
    chat_history = <<>> => conversation_context = <<>>

\* C30, for the prompts: the prompt of a question quotes only pairs of
\* questions that the chat history holds, so nothing from before a removal.
C30_PromptQuotesOnlyHistory ==
    [][(script_run'.runs = script_run.runs + 1) =>
          \A i \in DOMAIN llm_calls' : \A k \in DOMAIN llm_calls'[i].pairs :
              \E m \in DOMAIN chat_history :
                  /\ chat_history[m].role = "user"
                  /\ chat_history[m].content.body = llm_calls'[i].pairs[k].query]_vars

\* what holds: the removal leaves the conversation context as it was
C30_RemovalKeepsContext ==
    [][(chat_history # <<>> /\ chat_history' = <<>>) =>
          conversation_context' = conversation_context]_vars

(***************************************************************************)
(* SmartAnalyst._calculate_top_n.  The query is the sequence of the words  *)
(* of query.split(); a table is its set of column names and its set of     *)
(* rows [georaecheo, pummokmyeong, hapgye], the amounts being such that no *)
(* two groups have the same sum.  A ranking is the sequence of             *)
(* [key, sum] in the order returned.                                       *)
(***************************************************************************)
\* str.isdigit() of a word
isdigit(word) == word \in {"0", "1", "2"}

\* int(word) of a word of digits
int(word) == CASE word = "0" -> 0 [] word = "1" -> 1 [] word = "2" -> 2

\* lines 282-286: <<int of the first word of digits>>, <<>> without one
ExtractN(query) ==
    LET digits == {i \in DOMAIN query : isdigit(query[i])}
    IN IF digits = {} THEN <<>>
       ELSE <<int(query[CHOOSE i \in digits : \A j \in digits : i <= j])>>

\* df.groupby(col)['hapgye'].sum().sort_values(ascending=False)
GroupSum(df, col, key) ==
    LET group == {r \in df.rows : r[col] = key}
        RECURSIVE Total(_)
        Total(rows) == IF rows = {} THEN 0
                       ELSE LET r == CHOOSE r \in rows : TRUE
                            IN r.hapgye + Total(rows \ {r})
    IN Total(group)

Grouped(df, col) ==
    LET keys == {r[col] : r \in df.rows}
        Larger(k) == Cardinality({o \in keys : GroupSum(df, col, o) > GroupSum(df, col, k)})
    IN [i \in 1..Cardinality(keys) |->
           LET k == CHOOSE k \in keys : Larger(k) = i - 1
           IN [key |-> k, sum |-> GroupSum(df, col, k)]]

CompanyCap == 50

ProductCap == 30

\* lines 305-314 and 336-344: head(n) when n is given and not 0, else all
\* groups up to the cap
Limited(grouped, n, cap) ==
    IF n # <<>> /\ n[1] # 0 THEN HeadRows(grouped, n[1])
    ELSE HeadRows(grouped, cap)

\* SmartAnalyst._calculate_top_n
calculate_top_n(query, df) ==
    LET n == ExtractN(query)
    IN [n |-> n,
        companies |->
            IF {"georaecheo", "hapgye"} \subseteq df.columns
            THEN <<Limited(Grouped(df, "georaecheo"), n, CompanyCap)>> ELSE <<>>,
        products |->
            IF {"pummokmyeong", "hapgye"} \subseteq df.columns
            THEN <<Limited(Grouped(df, "pummokmyeong"), n, ProductCap)>> ELSE <<>>]

MaxTopWords == 3

TopNWords == {"sangwi", "Top", "maechul", "0", "1", "2", "2gae"}

TopNQueries == SeqsUpTo(TopNWords, MaxTopWords) \ {<<>>}

TopNRows ==
    {[georaecheo |-> "A", pummokmyeong |-> "p1", hapgye |-> 1],
     [georaecheo |-> "A", pummokmyeong |-> "p2", hapgye |-> 2],
     [georaecheo |-> "B", pummokmyeong |-> "p1", hapgye |-> 4],
     [georaecheo |-> "C", pummokmyeong |-> "p3", hapgye |-> 8]}

TopNTables ==
    [columns : {{"georaecheo", "hapgye"}, {"pummokmyeong", "hapgye"},
                {"georaecheo", "pummokmyeong", "hapgye"},
                {"georaecheo", "pummokmyeong"}},
     rows : SUBSET TopNRows \ {{}}]

TopNInit ==
    /\ topn_df \in TopNTables
    /\ topn_query = <<>>
    /\ topn_result = NoRankings
    /\ CalcIdle /\ RouterIdle /\ MaskIdle /\ CellIdle /\ JoinIdle
    /\ AnalystIdle /\ LookupIdle /\ ProcessorIdle /\ RagIdle /\ AppIdle
    /\ CsvIdle /\ PageIdle /\ StoreIdle

\* one call for the table
CalculateTopN ==
    /\ topn_query = <<>>
    /\ \E query \in TopNQueries :
        /\ topn_query' = query
        /\ topn_result' = calculate_top_n(query, topn_df)
    /\ UNCHANGED <<topn_df, calcVars, routerVars, maskVars, cellVars, joinVars,
                   analystVars, lookupVars, processorVars, ragVars, appVars,
                   csvVars, pageVars, storeVars>>

TopNNext == CalculateTopN

SpecTopN == TopNInit /\ [][TopNNext]_vars

\* the number a word states: digits, alone or with a counter word
StatedNumbers(query) ==
    {i \in DOMAIN query : query[i] \in {"0", "1", "2", "2gae"}}

NumberOf(word) == IF word = "2gae" THEN 2 ELSE int(word)

\* the rankings of the last call
Rankings == topn_result.companies \o topn_result.products

SortedDescending(ranking) ==
    \A i, j \in DOMAIN ranking : i < j => ranking[i].sum > ranking[j].sum

TopCueIn(query) == \E i \in DOMAIN query : query[i] \in {"sangwi", "Top"}

\* C25: when the query states a number N with the top cue, also a number
\* attached to a counter word, every ranking is limited to N rows in
\* descending order of the group sums; only without a number all groups
\* are returned (up to the cap of 50 companies or 30 products).
C25_TopNLimited ==
    (topn_query # <<>> /\ TopCueIn(topn_query)) =>
        LET stated == StatedNumbers(topn_query)
        IN \A k \in DOMAIN Rankings :
               /\ SortedDescending(Rankings[k])
               /\ IF stated = {}
                  THEN Len(Rankings[k]) = Cardinality({Rankings[k][i].key : i \in DOMAIN Rankings[k]})
                  ELSE LET first == CHOOSE i \in stated : \A j \in stated : i <= j
                       IN Len(Rankings[k]) <= NumberOf(topn_query[first])

\* what holds: the limit is the first word that consists of digits only,
\* and it limits the rankings unless it is 0; a number with a counter word
\* attached is no such word
C25_DigitWordLimits ==
    topn_query # <<>> =>
        LET digits == {i \in DOMAIN topn_query : isdigit(topn_query[i])}
            n == IF digits = {} THEN 0
                 ELSE int(topn_query[CHOOSE i \in digits : \A j \in digits : i <= j])
        IN \A k \in DOMAIN Rankings :
               /\ SortedDescending(Rankings[k])
               /\ n > 0 => Len(Rankings[k]) <= n
               /\ n = 0 => Len(Rankings[k])
                             = IF k = 1 /\ topn_result.companies # <<>>
                               THEN Cardinality({r.georaecheo : r \in topn_df.rows})
                               ELSE Cardinality({r.pummokmyeong : r \in topn_df.rows})

(***************************************************************************)
(* Claims about the scores of the router.                                  *)
(***************************************************************************)
\* the final scores as the rules for names and dates are described: each
\* rule credits the aggregation score when the score of the keywords and
\* of rules 1 to 3 is positive, and the lookup score otherwise
CreditedScores(q) ==
    LET aggregating == calc_score_so_far(q) > 0
        named == contains_specific_name(q)
        dated == MatchesDate(q)
    IN [CALC |-> calc_score_so_far(q)
                    + (IF named /\ aggregating THEN 2 ELSE 0)
                    + (IF dated /\ aggregating THEN 2 ELSE 0),
        LOOKUP |-> lookup_score_so_far(q)
                    + (IF named /\ ~aggregating THEN 4 ELSE 0)
                    + (IF dated /\ ~aggregating THEN 1 ELSE 0)]

\* the scores the reasoning of the result reports are those of the modes
\* with a positive final score
ReportedScores ==
    IF routing_result = default_result THEN <<>>
    ELSE routing_result.reasoning.scores

\* C26: the rule for a specific name adds 1.0 to the aggregation score when
\* that score (keywords and rules 1 to 3) is positive and 2.0 to the lookup
\* score otherwise, never both; the date rule adds 1.0 to the aggregation
\* score or 0.5 to the lookup score likewise; when both rules fire they
\* credit the same mode.
C26_NameAndDateCredit ==
    Routed =>
        LET final == route_scores(route_query)
            credited == CreditedScores(route_query)
        IN /\ final.CALC = credited.CALC
           /\ final.LOOKUP = credited.LOOKUP
           /\ \A m \in DOMAIN ReportedScores \cap {"CALC", "LOOKUP"} :
                  ReportedScores[m] = credited[m]

\* a query with a name and a year and no aggregation word: 2.0 and 0.5 go
\* to the lookup score
C26_Witness ==
    /\ route_query = <<"hanguk", "y2024">>
    /\ routing_result.mode = "LOOKUP"
    /\ DOMAIN routing_result.reasoning.scores = {"LOOKUP"}
    /\ routing_result.reasoning.scores.LOOKUP = 5

\* C27: the default result (LOOKUP, 0.3) is returned exactly when the three
\* final scores are 0, and a largest score of 0 leaves no score negative;
\* otherwise the score of the returned mode is the largest, and among
\* equal scores CALC comes before LOOKUP and LOOKUP before RAG.
C27_DefaultOrLargest ==
    Routed =>
        LET final == route_scores(route_query)
            largest == MaxOf3(final.CALC, final.LOOKUP, final.RAG)
            order == <<"CALC", "LOOKUP", "RAG">>
        IN /\ routing_result = default_result
                  <=> (final.CALC = 0 /\ final.LOOKUP = 0 /\ final.RAG = 0)
           /\ largest = 0 => \A m \in DOMAIN final : final[m] >= 0
           /\ routing_result # default_result =>
                  /\ final[routing_result.mode] = largest
                  /\ \A i, j \in DOMAIN order :
                         (order[j] = routing_result.mode /\ i < j)
                             => final[order[i]] < largest
                  /\ routing_result.confidence # 9

\* CALC and LOOKUP share the largest score and CALC is returned, with a
\* negative score left out of the question
C27_Witness ==
    /\ Routed
    /\ routing_result # default_result
    /\ routing_result.mode = "CALC"
    /\ route_scores(route_query).CALC = route_scores(route_query).LOOKUP

(***************************************************************************)
(* VectorStore.  The embedding model and FAISS are outside the program:    *)
(* the vector of a text is written as <<text>>, and the order in which the *)
(* index returns its vectors for a query is any order.  A cache file is    *)
(* <<>> when it does not exist and <<content>> when it does.  Writing the  *)
(* cache either completes, fails before anything is written, or fails      *)
(* after the index file has been written.                                  *)
(***************************************************************************)
EMBEDDING_MODEL_NAME == "model"

\* model.encode(texts)
Embeddings(documents) == [i \in DOMAIN documents |-> <<documents[i].text>>]

\* VectorStore._save_to_cache
save_to_cache(store, cache, outcome) ==
    CASE outcome = "saved" ->
             [index |-> store.index, docs |-> <<store.documents>>,
              config |-> <<EMBEDDING_MODEL_NAME>>]
      [] outcome = "failed_after_index" -> [cache EXCEPT !.index = store.index]
      [] OTHER -> cache

\* VectorStore._load_from_cache: whether it loaded, and the store after it
load_from_cache(store, cache) ==
    IF cache.index = <<>> \/ cache.docs = <<>> \/ cache.config = <<>>
    THEN [ok |-> FALSE, store |-> store]
    ELSE IF cache.config[1] # EMBEDDING_MODEL_NAME
    THEN [ok |-> FALSE, store |-> store]
    ELSE [ok |-> TRUE,
          store |-> [index |-> cache.index, documents |-> cache.docs[1],
                     model |-> TRUE]]

\* seeded fault: the index is built and the documents are not stored
build_index_keeps_documents(store, cache, documents, force_rebuild, outcome) ==
    LET cached == IF force_rebuild THEN [ok |-> FALSE, store |-> store]
                  ELSE load_from_cache(store, cache)
        built == [index |-> <<Embeddings(documents)>>, documents |-> store.documents,
                  model |-> TRUE]
    IN IF cached.ok
       THEN [store |-> cached.store, cache |-> cache, loaded |-> TRUE]
       ELSE [store |-> built, cache |-> save_to_cache(built, cache, outcome),
             loaded |-> FALSE]

\* VectorStore.build_index: the cached index when it is not forced and the
\* cache loads, else the index of the documents, which is then cached
build_index(store, cache, documents, force_rebuild, outcome) ==
    LET cached == IF force_rebuild THEN [ok |-> FALSE, store |-> store]
                  ELSE load_from_cache(store, cache)
        built == [index |-> <<Embeddings(documents)>>, documents |-> documents,
                  model |-> TRUE]
    IN IF cached.ok
       THEN [store |-> cached.store, cache |-> cache, loaded |-> TRUE]
       ELSE [store |-> built, cache |-> save_to_cache(built, cache, outcome),
             loaded |-> FALSE]

\* lines 111-128: the documents of the positions in the order the index
\* returned them, filtered, until top_k are found
RECURSIVE Collected(_, _, _, _, _)
Collected(store, positions, top_k, dataset_filter, results) ==
    IF positions = <<>> \/ Len(results) >= top_k THEN results
    ELSE LET idx == positions[1]
             rest == Tail(positions)
         IN IF idx > Len(store.documents)
            THEN Collected(store, rest, top_k, dataset_filter, results)
            ELSE IF dataset_filter # "jeonche"
                    /\ store.documents[idx].dataset # dataset_filter
            THEN Collected(store, rest, top_k, dataset_filter, results)
            ELSE Collected(store, rest, top_k, dataset_filter,
                           Append(results, store.documents[idx]))

\* VectorStore.search, order being the order of the index for the query
store_search(store, order, top_k, dataset_filter) ==
    IF store.index = <<>> \/ ~store.model THEN <<>>
    ELSE LET search_k == MinOf(top_k * 10, Len(store.index[1]))
         IN Collected(store, SubSeq(order, 1, search_k), top_k, dataset_filter, <<>>)

MaxDocs == 2

StoreDocuments ==
    {[text |-> "t1", dataset |-> "georaecheo"], [text |-> "t2", dataset |-> "maechul"]}

DocumentLists == SeqsUpTo(StoreDocuments, MaxDocs)

\* the permutations of 1..n
Orders(n) ==
    {order \in [1..n -> 1..n] : \A i, j \in 1..n : i # j => order[i] # order[j]}

\* the cache a new process finds: none, one of this model, one of another
FoundCaches ==
    {NoCache}
    \cup {[index |-> <<Embeddings(docs)>>, docs |-> <<docs>>, config |-> <<name>>] :
             docs \in DocumentLists, name \in {EMBEDDING_MODEL_NAME, "other"}}

StoreInit ==
    /\ vector_store = NewStore
    /\ vector_cache \in FoundCaches
    /\ store_call = NoStoreCall
    /\ CalcIdle /\ RouterIdle /\ MaskIdle /\ CellIdle /\ JoinIdle
    /\ AnalystIdle /\ LookupIdle /\ ProcessorIdle /\ RagIdle /\ AppIdle
    /\ CsvIdle /\ PageIdle /\ TopNIdle

OtherThanStore ==
    <<calcVars, routerVars, maskVars, cellVars, joinVars, analystVars,
      lookupVars, processorVars, ragVars, appVars, csvVars, pageVars, topnVars>>

BuildIndex ==
    /\ \E documents \in DocumentLists, force_rebuild \in BOOLEAN,
          outcome \in {"saved", "failed", "failed_after_index"} :
        \E done \in {build_index(vector_store, vector_cache, documents,
                                 force_rebuild, outcome)} :
            /\ vector_store' = done.store
            /\ vector_cache' = done.cache
            /\ store_call' = [op |-> "build_index", built |-> TRUE,
                              documents |-> documents,
                              force_rebuild |-> force_rebuild,
                              loaded |-> done.loaded, results |-> <<>>]
    /\ UNCHANGED OtherThanStore

Search ==
    /\ \E top_k \in 1..MaxDocs, dataset_filter \in {"jeonche", "maechul"} :
        \E order \in IF vector_store.index = <<>> THEN {<<>>}
                     ELSE Orders(Len(vector_store.index[1])) :
            store_call' = [store_call EXCEPT
                !.op = "search",
                !.results = store_search(vector_store, order, top_k, dataset_filter)]
    /\ UNCHANGED <<vector_store, vector_cache, OtherThanStore>>

\* VectorStore.clear_cache
ClearCache ==
    /\ vector_cache' = NoCache
    /\ store_call' = [store_call EXCEPT !.op = "clear_cache"]
    /\ UNCHANGED <<vector_store, OtherThanStore>>

StoreNext == BuildIndex \/ Search \/ ClearCache

SpecStore == StoreInit /\ [][StoreNext]_vars

\* the store holds exactly the documents of the last build_index call,
\* with one vector per document, and the last search drew from them
HoldsPassedDocuments ==
    /\ vector_store.documents = store_call.documents
    /\ vector_store.index = <<Embeddings(store_call.documents)>>
    /\ Range(store_call.results) \subseteq Range(store_call.documents)

\* C28: after build_index(documents) returned, whatever calls came before
\* and whether or not there is a cache, the store holds exactly the
\* documents passed, with one index vector per document, and search
\* results are drawn only from them.
C28_StoreHoldsPassed == store_call.built => HoldsPassedDocuments

\* C28 as the code has it: the store holds the documents passed when the
\* call built the index, which it does when it is forced to or when no
\* cache of the same model loads; otherwise it holds the index and the
\* documents of the cache
C28_BuiltHoldsPassed ==
    store_call.built =>
        /\ store_call.force_rebuild => ~store_call.loaded
        /\ ~store_call.loaded => HoldsPassedDocuments
        /\ Range(store_call.results) \subseteq Range(vector_store.documents)

\* a forced build_index call built and cached the index of a document,
\* and a search found the document
C28_Witness ==
    /\ store_call.op = "search"
    /\ store_call.force_rebuild
    /\ store_call.documents = <<[text |-> "t2", dataset |-> "maechul"]>>
    /\ store_call.results = store_call.documents
    /\ vector_cache.docs = <<store_call.documents>>

====
